---- MODULE Spec2Model ----
(***************************************************************************)
(* Model of the ingestion pipeline of buildDB_local.py: the selection of   *)
(* source files (get_files_to_ingest), the load of one file into the four  *)
(* tables (ingest_one_file), the batch driver (main) with its commits, and *)
(* the last-price backfill.                                                *)
(*                                                                         *)
(* Conventions.  A Python None, a pandas NaN and an SQL NULL are all the   *)
(* empty tuple None; a present value v is the one-element tuple <<v>>.     *)
(* Text is a TLA+ string and is read character by character.  A float is   *)
(* an integer number of hundredths (12.5 is 1250).  A source file is kept  *)
(* in the form pandas.read_csv(dtype=str) returns it: a set of column      *)
(* headers and a list of rows whose cells are text or NaN.                 *)
(***************************************************************************)
EXTENDS Integers, Sequences, FiniteSets, TLC

\* ------------------------------------------------------------------------
\* Missing values
\* ------------------------------------------------------------------------
None == <<>>

Some(v) == <<v>>

IsNone(o) == o = <<>>

Get(o) == o[1]

Positive(o) == ~IsNone(o) /\ Get(o) > 0

\* SQL COALESCE(a, b)
Coalesce(a, b) == IF IsNone(a) THEN b ELSE a

\* ------------------------------------------------------------------------
\* Text
\* ------------------------------------------------------------------------
Char(s, i) == SubSeq(s, i, i)

\* the characters of the model's texts, in code point order
Alphabet == " +,-.0123456789ABCDEFGHIJKLMNOPQRSTUVWXYZ_abcdefghijklmnopqrstuvwxyz"

Ord(c) == CHOOSE i \in 1..Len(Alphabet) : Char(Alphabet, i) = c

Digits == "0123456789"

IsDigit(c) == \E i \in 1..10 : Char(Digits, i) = c

DigitVal(c) == (CHOOSE i \in 1..10 : Char(Digits, i) = c) - 1

AllDigits(s) == \A i \in 1..Len(s) : IsDigit(Char(s, i))

RECURSIVE DigitsVal(_)
DigitsVal(s) ==
    IF Len(s) = 0 THEN 0
    ELSE 10 * DigitsVal(SubSeq(s, 1, Len(s) - 1)) + DigitVal(Char(s, Len(s)))

\* Python's a < b on str: lexicographic by code point
RECURSIVE StrLess(_, _)
StrLess(a, b) ==
    IF Len(b) = 0 THEN FALSE
    ELSE IF Len(a) = 0 THEN TRUE
    ELSE IF Char(a, 1) = Char(b, 1)
         THEN StrLess(SubSeq(a, 2, Len(a)), SubSeq(b, 2, Len(b)))
         ELSE Ord(Char(a, 1)) < Ord(Char(b, 1))

\* str.startswith
StartsWith(s, p) == Len(s) >= Len(p) /\ SubSeq(s, 1, Len(p)) = p

\* str.strip()
RECURSIVE Strip(_)
Strip(s) ==
    IF Len(s) = 0 THEN s
    ELSE IF Char(s, 1) = " " THEN Strip(SubSeq(s, 2, Len(s)))
    ELSE IF Char(s, Len(s)) = " " THEN Strip(SubSeq(s, 1, Len(s) - 1))
    ELSE s

UpperCase == "ABCDEFGHIJKLMNOPQRSTUVWXYZ"

LowerCase == "abcdefghijklmnopqrstuvwxyz"

LowerChar(c) ==
    IF \E i \in 1..26 : Char(UpperCase, i) = c
    THEN Char(LowerCase, CHOOSE i \in 1..26 : Char(UpperCase, i) = c)
    ELSE c

\* str.lower()
RECURSIVE Lower(_)
Lower(s) ==
    IF Len(s) = 0 THEN s
    ELSE LowerChar(Char(s, 1)) \o Lower(SubSeq(s, 2, Len(s)))

\* str.replace(",", ".")
RECURSIVE ReplaceComma(_)
ReplaceComma(s) ==
    IF Len(s) = 0 THEN s
    ELSE (IF Char(s, 1) = "," THEN "." ELSE Char(s, 1))
         \o ReplaceComma(SubSeq(s, 2, Len(s)))

\* in Python, str(x) of a cell: the text itself, "nan" for NaN; the same text
\* is what Series.astype(str) gives.
AsTypeStr(cell) == IF IsNone(cell) THEN "nan" ELSE Get(cell)

\* a parsed magnitude with the sign of the text t
WithSign(t, mag) ==
    IF IsNone(mag) THEN None
    ELSE IF Len(t) > 0 /\ Char(t, 1) = "-" THEN Some(0 - Get(mag))
    ELSE mag

\* the text t without its leading sign
Unsigned(t) ==
    IF Len(t) > 0 /\ Char(t, 1) \in {"+", "-"} THEN SubSeq(t, 2, Len(t)) ELSE t

IntMagnitude(body) ==
    IF Len(body) = 0 \/ ~AllDigits(body) THEN None ELSE Some(DigitsVal(body))

IntOfStripped(t) == WithSign(t, IntMagnitude(Unsigned(t)))

\* int(s) of a str: surrounding blanks and one sign are accepted; None
\* stands for ValueError.
PyInt(s) == IntOfStripped(Strip(s))

\* the text before the first "." of s, and the text after it
RECURSIVE BeforeDot(_)
BeforeDot(s) ==
    IF Len(s) = 0 \/ Char(s, 1) = "." THEN ""
    ELSE Char(s, 1) \o BeforeDot(SubSeq(s, 2, Len(s)))

RECURSIVE AfterDot(_)
AfterDot(s) ==
    IF Len(s) = 0 THEN ""
    ELSE IF Char(s, 1) = "." THEN SubSeq(s, 2, Len(s))
    ELSE AfterDot(SubSeq(s, 2, Len(s)))

\* the value, in hundredths, of the decimal literal whole.frac
Hundredths(whole, frac) ==
    IF Len(whole) + Len(frac) = 0 \/ ~AllDigits(whole) \/ ~AllDigits(frac)
       \/ Len(frac) > 2
    THEN None
    ELSE Some(100 * DigitsVal(whole)
              + (IF Len(frac) = 1 THEN 10 ELSE 1) * DigitsVal(frac))

FloatOfStripped(t) == WithSign(t, Hundredths(BeforeDot(Unsigned(t)), AfterDot(Unsigned(t))))

\* float(s) of a str, in hundredths, for decimal literals with at most two
\* decimals: [blanks][sign]digits[.digits][blanks]; None stands for
\* ValueError.  (Exponents, "inf" and digit-group underscores are not among
\* the model's texts.)
PyFloat(s) == FloatOfStripped(Strip(s))

\* int(f) of a float in hundredths: truncation toward zero
PyTrunc(h) == IF h >= 0 THEN h \div 100 ELSE 0 - ((0 - h) \div 100)

\* ------------------------------------------------------------------------
\* Calendar dates (datetime.date), as <<year, month, day>>
\* ------------------------------------------------------------------------
IsLeap(y) == (y % 4 = 0 /\ y % 100 # 0) \/ y % 400 = 0

DaysInMonth(y, m) ==
    IF m = 2 THEN (IF IsLeap(y) THEN 29 ELSE 28)
    ELSE IF m \in {4, 6, 9, 11} THEN 30 ELSE 31

\* dt.date(y, m, d) does not raise ValueError
IsDate(y, m, d) ==
    /\ y >= 1 /\ y <= 9999
    /\ m >= 1 /\ m <= 12
    /\ d >= 1 /\ d <= DaysInMonth(y, m)

DateLess(a, b) ==
    \/ a[1] < b[1]
    \/ a[1] = b[1] /\ a[2] < b[2]
    \/ a[1] = b[1] /\ a[2] = b[2] /\ a[3] < b[3]

TwoDigits(n) == Char(Digits, (n \div 10) + 1) \o Char(Digits, (n % 10) + 1)

\* date.isoformat()
IsoFormat(d) ==
    TwoDigits(d[1] \div 100) \o TwoDigits(d[1] % 100) \o "-"
        \o TwoDigits(d[2]) \o "-" \o TwoDigits(d[3])

\* pd.to_datetime(n, unit="D", origin="1899-12-30").date(): the civil date n
\* days after 1899-12-30
DateFromSerial(n) ==
    LET z == n - 25569 + 719468
        era == z \div 146097
        doe == z - era * 146097
        yoe == (doe - (doe \div 1460) + (doe \div 36524) - (doe \div 146096)) \div 365
        doy == doe - (365 * yoe + (yoe \div 4) - (yoe \div 100))
        mp == (5 * doy + 2) \div 153
        d == doy - ((153 * mp + 2) \div 5) + 1
        m == IF mp < 10 THEN mp + 3 ELSE mp - 9
        y == yoe + era * 400 + (IF m <= 2 THEN 1 ELSE 0)
    IN  <<y, m, d>>

\* ------------------------------------------------------------------------
\* Configuration (buildDB_local.py, KONFIG)
\* ------------------------------------------------------------------------
F_PREFIX == "TopChanges_Nordea_Invest_DAG_"

DATO_START == <<2021, 1, 1>>

DATO_END == <<2035, 12, 31>>

\* main commits after every COMMIT_EVERY-th file of a batch
COMMIT_EVERY == 25

\* ------------------------------------------------------------------------
\* Cell parsers
\* ------------------------------------------------------------------------
\* dt.date(y, m, d), None for ValueError
Date(y, m, d) == IF IsDate(y, m, d) THEN Some(<<y, m, d>>) ELSE None

\* dt.date(2000 + yy, mm, dd) of three int() results, None if anything raised
DateOfParts(yy, mm, dd) ==
    IF IsNone(yy) \/ IsNone(mm) \/ IsNone(dd) THEN None
    ELSE Date(2000 + Get(yy), Get(mm), Get(dd))

DateOfRest(rest) ==
    IF Len(rest) < 6 THEN None
    ELSE DateOfParts(PyInt(SubSeq(rest, 1, 2)), PyInt(SubSeq(rest, 3, 4)),
                     PyInt(SubSeq(rest, 5, 6)))

parse_file_date_from_name(filename) ==
    IF ~StartsWith(filename, F_PREFIX) THEN None
    ELSE DateOfRest(SubSeq(filename, Len(F_PREFIX) + 1, Len(filename)))

\* d.isoformat() of a date that may be None
Iso(d) == IF IsNone(d) THEN None ELSE Some(IsoFormat(Get(d)))

\* pd.to_datetime(s, errors="coerce") for the texts of the model: a text of
\* the form YYYY-MM-DD naming a calendar day is that day, every other text of
\* the model has no reading as a date (NaT).
to_datetime_coerce(s) ==
    IF /\ Len(s) = 10
       /\ Char(s, 5) = "-" /\ Char(s, 8) = "-"
       /\ AllDigits(SubSeq(s, 1, 4)) /\ AllDigits(SubSeq(s, 6, 7))
       /\ AllDigits(SubSeq(s, 9, 10))
    THEN Date(DigitsVal(SubSeq(s, 1, 4)), DigitsVal(SubSeq(s, 6, 7)),
              DigitsVal(SubSeq(s, 9, 10)))
    ELSE None

\* the branch for a text of digits with YYMMDD read as a year of 1900..1999
normalize_digits_1900(s) ==
    IF Len(s) = 8
    THEN Iso(Date(DigitsVal(SubSeq(s, 1, 4)), DigitsVal(SubSeq(s, 5, 6)),
                  DigitsVal(SubSeq(s, 7, 8))))
    ELSE IF Len(s) = 6
    THEN Iso(Date(1900 + DigitsVal(SubSeq(s, 1, 2)), DigitsVal(SubSeq(s, 3, 4)),
                  DigitsVal(SubSeq(s, 5, 6))))
    ELSE IF 20000 <= DigitsVal(s) /\ DigitsVal(s) <= 80000
    THEN Some(IsoFormat(DateFromSerial(DigitsVal(s))))
    ELSE Iso(to_datetime_coerce(s))

\* the branch of normalize_date for a text of digits
normalize_digits(s) ==
    IF Len(s) = 8
    THEN Iso(Date(DigitsVal(SubSeq(s, 1, 4)), DigitsVal(SubSeq(s, 5, 6)),
                  DigitsVal(SubSeq(s, 7, 8))))
    ELSE IF Len(s) = 6
    THEN Iso(Date(2000 + DigitsVal(SubSeq(s, 1, 2)), DigitsVal(SubSeq(s, 3, 4)),
                  DigitsVal(SubSeq(s, 5, 6))))
    ELSE IF 20000 <= DigitsVal(s) /\ DigitsVal(s) <= 80000
    THEN Some(IsoFormat(DateFromSerial(DigitsVal(s))))
    ELSE Iso(to_datetime_coerce(s))

\* normalize_date from s = str(value).strip() on
normalize_stripped(s) ==
    IF s = "" \/ Lower(s) = "nan" THEN None
    ELSE IF AllDigits(s) THEN normalize_digits(s)
    ELSE Iso(to_datetime_coerce(s))

normalize_date(value) ==
    IF IsNone(value) THEN None ELSE normalize_stripped(Strip(Get(value)))

clean_stripped(s) ==
    IF s = "" \/ Lower(s) = "nan" THEN None ELSE PyFloat(ReplaceComma(s))

clean_num(x) == IF IsNone(x) THEN None ELSE clean_stripped(Strip(Get(x)))

\* the lambda of the Ny, Forlatt and Rank columns:
\*   int(float(x)) if str(x).strip() not in ["", "nan"] else None
\* FlagRaises: float(x) raises ValueError; flag_int: the value otherwise.
FlagRaises(x) ==
    /\ Strip(AsTypeStr(x)) \notin {"", "nan"}
    /\ IsNone(PyFloat(Get(x)))

flag_int(x) ==
    IF Strip(AsTypeStr(x)) \in {"", "nan"} THEN None
    ELSE Some(PyTrunc(Get(PyFloat(Get(x)))))

\* ------------------------------------------------------------------------
\* Column aliases (ingest_one_file, pick_col)
\* ------------------------------------------------------------------------
\* the first of names that is a column of df, None if there is none
RECURSIVE pick_col(_, _)
pick_col(df, names) ==
    IF Len(names) = 0 THEN None
    ELSE IF Head(names) \in df.columns THEN Some(Head(names))
    ELSE pick_col(df, Tail(names))

col_investor_id == <<"New_ID", "investor_ID", "Investor_ID", "InvestorID">>

col_isin == <<"ISIN">>

col_date_today == <<"DatoIdag", "Dato idag", "DateToday">>

\* the text attributes of investor and their header aliases
InvestorCols ==
    [investor_type |-> <<"Investortype", "InvestorType">>,
     first_name    |-> <<"Fornavn", "FirstName">>,
     last_name     |-> <<"Etternavn", "LastName">>,
     country_code  |-> <<"Country code", "Country_code", "CountryCode">>,
     raw_id        |-> <<"Date of Birth", "DOB", "Raw_ID">>]

\* the text attributes of security and their header aliases
SecurityTextCols ==
    [ticker             |-> <<"Ticker">>,
     isin_name          |-> <<"ISINNAVN", "ISINNAVN ", "ISINName">>,
     paper_group        |-> <<"PAPIRGRUPPE", "Papirgruppe">>,
     issuer_orgnr       |-> <<"Orgnr", "Org.nr", "IssuerOrgnr">>,
     issuer_name        |-> <<"Utsteder navn", "Utsteder_navn", "IssuerName">>,
     registered_country |-> <<"Registrert land", "Registered country">>,
     market             |-> <<"Markedsplass", "Market">>,
     sector             |-> <<"Sektor", "Sector">>,
     gics_sector        |-> <<"GICS_SECTOR", "GICS Sector">>,
     ask_paper          |-> <<"ASK-papir", "ASK_papir">>]

col_issued == <<"Utstedt antall", "Issued_shares">>

col_date_yest == <<"DatoIgaar", "Dato igaar", "DateYesterday">>

\* the numeric columns of position_change and their header aliases
FactNumCols ==
    [holding_today     |-> <<"Beh. idag", "Beh idag", "Holding today">>,
     holding_yesterday |-> <<"Beh. igaar", "Beh igaar", "Holding yesterday">>,
     price_today       |-> <<"Kurs idag", "Kurs idag ", "Price today">>,
     price_yesterday   |-> <<"Kurs igaar", "Kurs igaar ", "Price yesterday">>,
     change_qty        |-> <<"Change", "ChangeQty">>,
     abs_change_qty    |-> <<"AbsChange", "Abs change">>,
     change_percent    |-> <<"ChangePercent", "Change %">>]

\* the integer columns of position_change and their header aliases
FactFlagCols ==
    [flag_new_source  |-> <<"Ny", "New">>,
     flag_exit_source |-> <<"Forlatt", "Exit">>,
     rank             |-> <<"Rank">>]

\* df[col] of row i, for a column picked by pick_col
Cell(df, i, col) == df.rows[i][Get(col)]

\* df[col].astype(str).str.strip() of row i
StrCell(df, i, col) == Strip(AsTypeStr(Cell(df, i, col)))

\* df[col].astype(str).str.strip() if col else None, of row i
TextCell(df, i, col) == IF IsNone(col) THEN None ELSE Some(StrCell(df, i, col))

\* df[col].map(clean_num) if col else None, of row i
NumCell(df, i, col) == IF IsNone(col) THEN None ELSE clean_num(Cell(df, i, col))

\* df[col].map(normalize_date) if col else None, of row i
DateCell(df, i, col) == IF IsNone(col) THEN None ELSE normalize_date(Cell(df, i, col))

\* df[col].map(lambda ...) if col else None, of row i, for Ny, Forlatt, Rank
FlagCell(df, i, col) == IF IsNone(col) THEN None ELSE flag_int(Cell(df, i, col))

\* ------------------------------------------------------------------------
\* The store: four tables, each a function from its primary key to a row
\* ------------------------------------------------------------------------
EmptyStore ==
    [ingested_files  |-> <<>>,
     investor        |-> <<>>,
     security        |-> <<>>,
     position_change |-> <<>>]

Tables == {"ingested_files", "investor", "security", "position_change"}

\* the columns CREATE TABLE gives each table, in their order
SchemaLayout ==
    [ingested_files  |-> <<"filename", "mtime", "ingested_at">>,
     investor        |-> <<"investor_id", "investor_type", "first_name", "last_name",
                           "country_code", "raw_id">>,
     security        |-> <<"isin", "ticker", "isin_name", "paper_group", "issuer_orgnr",
                           "issuer_name", "registered_country", "market", "sector",
                           "gics_sector", "ask_paper", "issued_shares", "last_price">>,
     position_change |-> <<"isin", "investor_id", "date_today", "date_yesterday",
                           "holding_today", "holding_yesterday", "price_today",
                           "price_yesterday", "change_qty", "abs_change_qty",
                           "change_percent", "flag_new_source", "flag_exit_source",
                           "rank", "source_file">>]

\* the set of the columns of a column list
Columns(cols) == {cols[j] : j \in 1..Len(cols)}

\* a database file: the columns of its tables (a table that does not exist
\* is absent from layout) and the rows of its tables
Database(lay, tabs) == [layout |-> lay, tables |-> tabs]

\* the schema script as DROP TABLE and CREATE TABLE
schema_recreate(db) == Database(SchemaLayout, EmptyStore)

\* conn.executescript(SCHEMA_SQL): CREATE TABLE IF NOT EXISTS creates the
\* tables that do not exist and leaves the others as they are
executescript_schema(db) ==
    Database([t \in Tables |->
                 IF t \in DOMAIN db.layout THEN db.layout[t] ELSE SchemaLayout[t]],
             db.tables)

\* ALTER TABLE t ADD COLUMN c: the column comes last, NULL in every row
add_column(db, t, c) ==
    Database([db.layout EXCEPT ![t] = Append(@, c)],
             [db.tables EXCEPT ![t] = [k \in DOMAIN @ |-> @[k] @@ (c :> None)]])

\* the column c added to table t if PRAGMA table_info(t) does not list it
ensure_column(db, t, c) ==
    IF c \in Columns(db.layout[t]) THEN db ELSE add_column(db, t, c)

ensure_security_last_price_column(db) == ensure_column(db, "security", "last_price")

ensure_position_change_price_today_column(db) ==
    ensure_column(db, "position_change", "price_today")

\* drop_duplicates(keep="last"): the last row of each key, in file order
RECURSIVE KeepLast(_, _)
KeepLast(rows, i) ==
    IF i = 0 THEN <<>>
    ELSE IF /\ ~IsNone(rows[i].key)
            /\ \A k \in (i + 1)..Len(rows) : rows[k].key # rows[i].key
         THEN Append(KeepLast(rows, i - 1), rows[i])
         ELSE KeepLast(rows, i - 1)

dropna_keep_last(rows) == KeepLast(rows, Len(rows))

\* the index of the first row of rows with the key of row i
FirstWithKey(rows, i) ==
    CHOOSE j \in 1..i :
        /\ rows[j].key = rows[i].key
        /\ \A k \in 1..(j - 1) : rows[k].key # rows[i].key

\* DataFrame.dropna(subset=key) followed by drop_duplicates(subset=key): the
\* rows whose key is present, the first of each key, in file order
RECURSIVE KeepFirst(_, _)
KeepFirst(rows, i) ==
    IF i = 0 THEN <<>>
    ELSE IF ~IsNone(rows[i].key) /\ FirstWithKey(rows, i) = i
         THEN Append(KeepFirst(rows, i - 1), rows[i])
         ELSE KeepFirst(rows, i - 1)

dropna_drop_duplicates(rows) == KeepFirst(rows, Len(rows))

\* Series.replace({"nan": None, "": None})
replace_nan_empty(s) == IF s \in {"nan", ""} THEN None ELSE Some(s)

\* INSERT INTO t ... ON CONFLICT(key) DO UPDATE SET a = COALESCE(excluded.a, t.a)
\* for every attribute a of row; a new row gets blank for the other columns.
upsert_coalesce(table, key, row, blank) ==
    IF key \in DOMAIN table
    THEN [table EXCEPT ![key] =
             [a \in DOMAIN @ |->
                 IF a \in DOMAIN row THEN Coalesce(row[a], @[a]) ELSE @[a]]]
    ELSE table @@ (key :> (row @@ blank))

RECURSIVE upsert_all(_, _, _)
upsert_all(table, rows, blank) ==
    IF Len(rows) = 0 THEN table
    ELSE upsert_all(upsert_coalesce(table, Get(Head(rows).key), Head(rows).row, blank),
                    Tail(rows), blank)

\* INSERT OR IGNORE in the place of INSERT OR REPLACE: a stored row wins
insert_or_ignore(table, key, row) ==
    IF key \in DOMAIN table THEN table ELSE table @@ (key :> row)

\* INSERT OR REPLACE INTO t: a row with the same primary key is deleted and the
\* new row inserted
insert_or_replace(table, key, row) ==
    IF key \in DOMAIN table
    THEN [table EXCEPT ![key] = row]
    ELSE table @@ (key :> row)

\* the table emptied before the rows are inserted
RECURSIVE insert_into_emptied(_, _)
insert_into_emptied(table, facts) ==
    IF Len(facts) = 0 THEN <<>>
    ELSE insert_or_replace(insert_into_emptied(table, SubSeq(facts, 1, Len(facts) - 1)),
                           Get(facts[Len(facts)].key), facts[Len(facts)].row)

\* executemany(INSERT OR REPLACE INTO position_change ...)
RECURSIVE insert_or_replace_all(_, _)
insert_or_replace_all(table, facts) ==
    IF Len(facts) = 0 THEN table
    ELSE insert_or_replace_all(
             insert_or_replace(table, Get(Head(facts).key), Head(facts).row),
             Tail(facts))

\* ------------------------------------------------------------------------
\* ingest_one_file
\* ------------------------------------------------------------------------
MaxOf(S) == CHOOSE v \in S : \A w \in S : w <= v

\* a mandatory column has no alias among the columns of df
MissingMandatory(df) ==
    \/ IsNone(pick_col(df, col_isin))
    \/ IsNone(pick_col(df, col_investor_id))
    \/ IsNone(pick_col(df, col_date_today))

\* the frame inv before dropna and drop_duplicates
inv_frame(df) ==
    [i \in 1..Len(df.rows) |->
        [key |-> replace_nan_empty(StrCell(df, i, pick_col(df, col_investor_id))),
         row |-> [a \in DOMAIN InvestorCols |->
                     TextCell(df, i, pick_col(df, InvestorCols[a]))]]]

\* the frame sec before dropna and drop_duplicates
sec_frame(df) ==
    [i \in 1..Len(df.rows) |->
        [key |-> replace_nan_empty(StrCell(df, i, pick_col(df, col_isin))),
         row |-> [a \in DOMAIN SecurityTextCols |->
                     TextCell(df, i, pick_col(df, SecurityTextCols[a]))]
                 @@ [issued_shares |-> NumCell(df, i, pick_col(df, col_issued))]]]

\* a flag column is present and float() raises on its cell of row i
FlagCellRaises(df, i, col) == ~IsNone(col) /\ FlagRaises(Cell(df, i, col))

\* building the frame facts raises: some Ny, Forlatt or Rank cell is no number
facts_raises(df) ==
    \E a \in DOMAIN FactFlagCols, i \in 1..Len(df.rows) :
        FlagCellRaises(df, i, pick_col(df, FactFlagCols[a]))

\* the subset of dropna: the three values of the key, None if one is missing
\* (isin and investor_id are texts and never missing)
FactKey(isin, investor_id, date_today) ==
    IF IsNone(date_today) THEN None ELSE Some(<<isin, investor_id, Get(date_today)>>)

\* one row of the frame facts
fact_row(df, i, filename, isin, investor_id, date_today) ==
    [key |-> FactKey(isin, investor_id, date_today),
     row |-> [isin |-> isin,
              investor_id |-> investor_id,
              date_today |-> date_today,
              date_yesterday |-> DateCell(df, i, pick_col(df, col_date_yest)),
              source_file |-> filename]
             @@ [a \in DOMAIN FactNumCols |->
                    NumCell(df, i, pick_col(df, FactNumCols[a]))]
             @@ [a \in DOMAIN FactFlagCols |->
                    FlagCell(df, i, pick_col(df, FactFlagCols[a]))]]

\* the frame facts before dropna and drop_duplicates
facts_frame(df, filename) ==
    [i \in 1..Len(df.rows) |->
        fact_row(df, i, filename,
                 StrCell(df, i, pick_col(df, col_isin)),
                 StrCell(df, i, pick_col(df, col_investor_id)),
                 DateCell(df, i, pick_col(df, col_date_today)))]

\* the rows INSERT OR REPLACE is given
facts_of(df, filename) == dropna_drop_duplicates(facts_frame(df, filename))

\* the positive values of a price column among the rows of df with this isin
PositivePrices(df, isin, col) ==
    {Get(p) : p \in
        {q \in {NumCell(df, j, col) : j \in
                  {k \in 1..Len(df.rows) :
                      StrCell(df, k, pick_col(df, col_isin)) = isin}} :
            Positive(q)}}

\* max_pt.fillna(max_py): the greatest positive Kurs idag, else the greatest
\* positive Kurs igaar, else None
BestPrice(pt, py) ==
    IF pt # {} THEN Some(MaxOf(pt)) ELSE IF py # {} THEN Some(MaxOf(py)) ELSE None

\* dropna(subset=["last_price"])
DropNone(f) == [s \in {t \in DOMAIN f : ~IsNone(f[t])} |-> Get(f[s])]

\* the frame lastp: isin -> last_price
lastp(df) ==
    DropNone([s \in {StrCell(df, i, pick_col(df, col_isin)) : i \in 1..Len(df.rows)} |->
                 BestPrice(PositivePrices(df, s, pick_col(df, FactNumCols.price_today)),
                           PositivePrices(df, s, pick_col(df, FactNumCols.price_yesterday)))])

\* UPDATE security SET last_price = ? WHERE isin = ?, for every row of prices
update_last_price(security, prices) ==
    [s \in DOMAIN security |->
        IF s \in DOMAIN prices
        THEN [security[s] EXCEPT !.last_price = Some(prices[s])]
        ELSE security[s]]

\* the ledger given the time of the ingestion in the place of the file's mtime
mark_ingested_at_clock(ingested_files, filename, mtime, now) ==
    insert_or_replace(ingested_files, filename,
                      [mtime |-> now + 1, ingested_at |-> now])

mark_ingested(ingested_files, filename, mtime, now) ==
    insert_or_replace(ingested_files, filename,
                      [mtime |-> mtime, ingested_at |-> now])

\* the two dimension upserts, which run before the frame facts is built
upsert_dimensions(conn, df) ==
    [conn EXCEPT
        !.investor = upsert_all(@, dropna_drop_duplicates(inv_frame(df)), <<>>),
        !.security = upsert_all(@, dropna_drop_duplicates(sec_frame(df)),
                                [last_price |-> None])]

\* ingest_one_file from the frame facts on; dims: the tables after the upserts
ingest_facts(dims, file, filename, now) ==
    IF facts_raises(file.df)
    THEN [raised |-> TRUE, error |-> <<"ValueError", "float">>, conn |-> dims]
    ELSE [raised |-> FALSE, error |-> None,
          conn |-> [dims EXCEPT
             !.position_change = insert_or_replace_all(@, facts_of(file.df, filename)),
             !.security = update_last_price(@, lastp(file.df)),
             !.ingested_files = mark_ingested(@, filename, file.mtime, now)]]

\* the check of the mandatory columns made after the dimension upserts
ingest_check_late(conn, file, filename, now) ==
    IF MissingMandatory(file.df)
    THEN [raised |-> TRUE, error |-> <<"ValueError", filename>>,
          conn |-> upsert_dimensions(conn, file.df)]
    ELSE ingest_facts(upsert_dimensions(conn, file.df), file, filename, now)

\* ingest_one_file(conn, filename) for the file (mtime, df) at the clock now:
\* raised, the error raised, and the connection's tables when it returns or raises
ingest_one_file(conn, file, filename, now) ==
    IF MissingMandatory(file.df)
    THEN [raised |-> TRUE, error |-> <<"ValueError", filename>>, conn |-> conn]
    ELSE ingest_facts(upsert_dimensions(conn, file.df), file, filename, now)

\* ------------------------------------------------------------------------
\* refresh_security_last_price_from_position_change
\* ------------------------------------------------------------------------
\* eff_price with price_yesterday tried first
eff_price_yesterday_first(r) ==
    IF Positive(r.price_yesterday) THEN r.price_yesterday
    ELSE IF Positive(r.price_today) THEN r.price_today
    ELSE None

\* the CTE candidates: eff_price of a fact row
eff_price(r) ==
    IF Positive(r.price_today) THEN r.price_today
    ELSE IF Positive(r.price_yesterday) THEN r.price_yesterday
    ELSE None

\* the greatest text of S (SQL MAX of a TEXT column)
MaxText(S) == CHOOSE d \in S : \A e \in S : ~StrLess(d, e)

\* the CTE last_dates for one isin, over the rows with a positive eff_price
last_date(rows, isin) ==
    MaxText({Get(r.date_today) : r \in {q \in rows : q.isin = isin}})

\* the CTE last_prices for one isin
last_price_of(rows, isin, date) ==
    MaxOf({Get(eff_price(r)) : r \in
             {q \in rows : q.isin = isin /\ Get(q.date_today) = date}})

\* rows: the rows of candidates with COALESCE(eff_price, 0) > 0
last_prices_of(rows) ==
    [s \in {r.isin : r \in rows} |-> last_price_of(rows, s, last_date(rows, s))]

last_prices(position_change) ==
    last_prices_of({r \in {position_change[k] : k \in DOMAIN position_change} :
                      Positive(eff_price(r))})

refresh_security_last_price_from_position_change(store) ==
    [store EXCEPT !.security = update_last_price(@, last_prices(store.position_change))]

\* ------------------------------------------------------------------------
\* The analytical queries: price resolution
\* ------------------------------------------------------------------------
\* the rows of a table
Rows(table) == {table[k] : k \in DOMAIN table}

\* the calendar day after d
NextDay(d) ==
    IF d[3] < DaysInMonth(d[1], d[2]) THEN <<d[1], d[2], d[3] + 1>>
    ELSE IF d[2] < 12 THEN <<d[1], d[2] + 1, 1>>
    ELSE <<d[1] + 1, 1, 1>>

\* the calendar day a text YYYY-MM-DD names, NULL for NULL and any other text
DayOfText(t) == IF IsNone(t) THEN None ELSE to_datetime_coerce(Get(t))

\* SQLite date(t)
sql_date(t) == Iso(DayOfText(t))

DayAfter(d) == IF IsNone(d) THEN None ELSE Some(NextDay(Get(d)))

\* SQLite date(t, '+1 day')
sql_date_plus_1_day(t) == Iso(DayAfter(DayOfText(t)))

\* t BETWEEN lo AND hi on TEXT
Between(t, lo, hi) == ~StrLess(t, lo) /\ ~StrLess(hi, t)

\* NULLIF(x, v)
NullIf(x, v) == IF IsNone(x) THEN None ELSE IF Get(x) = v THEN None ELSE x

\* MAX over a group, NULL when the LEFT JOIN finds no group
MaxOrNull(S) == IF S = {} THEN None ELSE Some(MaxOf(S))

\* the rows the CTE prices is grouped from: COALESCE(price_yesterday, 0) > 0
Priced(position_change) == {r \in Rows(position_change) : Positive(r.price_yesterday)}

\* prices.p of the group (isin, d), as the LEFT JOIN hands it to a fact row
price_of_day(priced, isin, d) ==
    IF IsNone(d) THEN None
    ELSE MaxOrNull({Get(r.price_yesterday) : r \in
                      {q \in priced : q.isin = isin /\ sql_date(q.date_today) = d}})

\* p2.p for the fact row r
price_nextday(position_change, r) ==
    price_of_day(Priced(position_change), r.isin, sql_date_plus_1_day(r.date_today))

\* COALESCE(NULLIF(pc.price_yesterday, 0), p2.p)
sql_trade_price(position_change, r) ==
    Coalesce(NullIf(r.price_yesterday, 0), price_nextday(position_change, r))

\* one row of the CTE trades
trade(r, price) ==
    [isin |-> r.isin, investor_id |-> r.investor_id, dato |-> r.date_today,
     change_qty |-> r.change_qty, trade_price |-> price]

\* the CTE trades over the fact rows with the keys K
trades(position_change, K) ==
    [k \in K |-> trade(position_change[k],
                       sql_trade_price(position_change, position_change[k]))]

\* WHERE t.trade_price IS NOT NULL
nonnull_trades(trs) == {k \in DOMAIN trs : ~IsNone(trs[k].trade_price)}

\* WHERE COALESCE(t.trade_price, 0) > 0
priced_trades(trs) == {k \in DOMAIN trs : Positive(trs[k].trade_price)}

\* COALESCE(t.change_qty, 0)
qty0(t) == IF IsNone(t.change_qty) THEN 0 ELSE Get(t.change_qty)

\* COALESCE(t.change_qty, 0) * t.trade_price
amount(t) == qty0(t) * Get(t.trade_price)

Abs(n) == IF n < 0 THEN 0 - n ELSE n

\* SUM over the values of f
RECURSIVE SumOf(_)
SumOf(f) ==
    IF DOMAIN f = {} THEN 0
    ELSE f[CHOOSE k \in DOMAIN f : TRUE]
         + SumOf([j \in DOMAIN f \ {CHOOSE k \in DOMAIN f : TRUE} |-> f[j]])

\* the keys of the fact rows with date_today BETWEEN date_from AND date_to
InPeriod(position_change, date_from, date_to) ==
    {k \in DOMAIN position_change :
        Between(Get(position_change[k].date_today), date_from, date_to)}

\* ------------------------------------------------------------------------
\* The analytical queries
\* ------------------------------------------------------------------------
\* what a query hands back: its rows by group; with it the name of the query,
\* its threshold min_trades (0 where it has none) and the rows of its CTE trades
Answer(name, min_trades, trs, groups) ==
    [query |-> name, min_trades |-> min_trades, trades |-> trs, rows |-> groups]

\* the trades of G with a positive (a negative) quantity
Buys(trs, G) == {k \in G : qty0(trs[k]) > 0}

Sells(trs, G) == {k \in G : qty0(trs[k]) < 0}

\* SUM(COALESCE(change_qty, 0)) over G
sum_qty(trs, G) == SumOf([k \in G |-> qty0(trs[k])])

\* SUM(COALESCE(change_qty, 0) * trade_price) over G
sum_amount(trs, G) == SumOf([k \in G |-> amount(trs[k])])

\* the sum of the amounts without ABS
sum_signed_amount(trs, G) == SumOf([k \in G |-> amount(trs[k])])

\* SUM(ABS(COALESCE(change_qty, 0) * trade_price)) over G
sum_abs_amount(trs, G) == SumOf([k \in G |-> Abs(amount(trs[k]))])

\* Handler_eier: the SELECT over trades JOIN security, one row per isin
eier_select(trs, inc, security) ==
    [s \in {trs[k].isin : k \in inc} \cap DOMAIN security |->
        [antall_obs   |-> Cardinality({k \in inc : trs[k].isin = s}),
         netto_antall |-> sum_qty(trs, {k \in inc : trs[k].isin = s}),
         netto_belop  |-> sum_amount(trs, {k \in inc : trs[k].isin = s}),
         brutto_belop |-> sum_abs_amount(trs, {k \in inc : trs[k].isin = s})]]

eier_answer(trs, security) ==
    Answer("fetch_aggregated_by_security", 0, trs,
           eier_select(trs, priced_trades(trs), security))

\* Handler_eier.fetch_aggregated_by_security
fetch_aggregated_by_security(store, investor_id, date_from, date_to) ==
    eier_answer(trades(store.position_change,
                       {k \in InPeriod(store.position_change, date_from, date_to) :
                           store.position_change[k].investor_id = investor_id}),
                store.security)

\* handler_aksje: the SELECT over trades LEFT JOIN investor, one row per investor
aksje_select(trs, inc) ==
    [v \in {trs[k].investor_id : k \in inc} |->
        [antall_obs  |-> Cardinality({k \in inc : trs[k].investor_id = v}),
         kjop_antall |-> sum_qty(trs, Buys(trs, {k \in inc : trs[k].investor_id = v})),
         kjop_belop  |-> sum_amount(trs, Buys(trs, {k \in inc : trs[k].investor_id = v})),
         salg_antall |-> 0 - sum_qty(trs, Sells(trs, {k \in inc : trs[k].investor_id = v})),
         salg_belop  |-> sum_abs_amount(trs, Sells(trs, {k \in inc : trs[k].investor_id = v})),
         netto_belop |-> sum_amount(trs, {k \in inc : trs[k].investor_id = v})]]

aksje_answer(trs) ==
    Answer("fetch_buy_sell_by_investor", 0, trs, aksje_select(trs, priced_trades(trs)))

\* handler_aksje.fetch_buy_sell_by_investor
fetch_buy_sell_by_investor(store, isin, date_from, date_to) ==
    aksje_answer(trades(store.position_change,
                        {k \in InPeriod(store.position_change, date_from, date_to) :
                            store.position_change[k].isin = isin}))

\* handler_best_viktige: the SELECT over trades JOIN security, one row per isin
top_select(trs, inc, security) ==
    [s \in {trs[k].isin : k \in inc} \cap DOMAIN security |->
        [antall_obs   |-> Cardinality({k \in inc : trs[k].isin = s}),
         kjop_belop   |-> sum_amount(trs, Buys(trs, {k \in inc : trs[k].isin = s})),
         salg_belop   |-> sum_abs_amount(trs, Sells(trs, {k \in inc : trs[k].isin = s})),
         netto_belop  |-> sum_amount(trs, {k \in inc : trs[k].isin = s}),
         brutto_belop |-> sum_abs_amount(trs, {k \in inc : trs[k].isin = s})]]

top_answer(trs, security) ==
    Answer("fetch_top_by_security", 0, trs, top_select(trs, priced_trades(trs), security))

\* handler_best_viktige.fetch_top_by_security; selected: temp_selected_investors
fetch_top_by_security(store, selected, date_from, date_to) ==
    top_answer(trades(store.position_change,
                      {k \in InPeriod(store.position_change, date_from, date_to) :
                          store.position_change[k].investor_id \in selected}),
               store.security)

\* pd.to_numeric(...).fillna(0.0)
fillna0(x) == IF IsNone(x) THEN 0 ELSE Get(x)

\* beste_investorer: trade_price is price_main, and price_nextday where
\* price_main <= 0
pick_trade_price(price_main, price_next) ==
    IF price_main <= 0 THEN price_next ELSE price_main

pandas_trade_price(position_change, r) ==
    pick_trade_price(fillna0(r.price_yesterday),
                     fillna0(price_nextday(position_change, r)))

\* the frame df of compute_best_investors before df[df["trade_price"] > 0]
best_trades(position_change, K) ==
    [k \in K |-> trade(position_change[k],
                       Some(pandas_trade_price(position_change, position_change[k])))]

\* last_price_map as build_last_price_cache takes it from security.last_price
security_last_price_map(security) ==
    [s \in {x \in DOMAIN security : Positive(security[x].last_price)} |->
        Get(security[s].last_price)]

\* df["isin"].map(last_price_map).fillna(0.0)
map_last_price(last_price_map, isin) ==
    IF isin \in DOMAIN last_price_map THEN last_price_map[isin] ELSE 0

\* qty * (last_price - trade_price)
profit_kr(t, last_price_map) ==
    qty0(t) * (map_last_price(last_price_map, t.isin) - Get(t.trade_price))

\* df.groupby("investor_id").agg(...), then the filter on trades
best_agg(trs, inc, last_price_map, min_trades) ==
    [v \in {w \in {trs[k].investor_id : k \in inc} :
               Cardinality({k \in inc : trs[k].investor_id = w}) >= min_trades} |->
        [trades    |-> Cardinality({k \in inc : trs[k].investor_id = v}),
         gross_kr  |-> sum_abs_amount(trs, {k \in inc : trs[k].investor_id = v}),
         profit_kr |-> SumOf([k \in {j \in inc : trs[j].investor_id = v} |->
                                 profit_kr(trs[k], last_price_map)])]]

best_answer(trs, last_price_map, min_trades) ==
    Answer("compute_best_investors", min_trades, trs,
           best_agg(trs, priced_trades(trs), last_price_map, min_trades))

\* the keys of the fact rows with date(date_today) BETWEEN date(?) AND date(?)
InDatePeriod(position_change, date_from, date_to) ==
    {k \in {j \in DOMAIN position_change :
               ~IsNone(sql_date(position_change[j].date_today))} :
        Between(Get(sql_date(position_change[k].date_today)), date_from, date_to)}

\* beste_investorer.compute_best_investors without investor, type, country
\* and isin filter and with min_brutto_mnok = 0
compute_best_investors(store, date_from, date_to, min_trades, last_price_map) ==
    best_answer(best_trades(store.position_change,
                            InDatePeriod(store.position_change, date_from, date_to)),
                last_price_map, min_trades)

\* ------------------------------------------------------------------------
\* get_files_to_ingest
\* ------------------------------------------------------------------------
\* the least text of S
MinText(S) == CHOOSE a \in S : \A b \in S : ~StrLess(b, a)

RECURSIVE SortedFrom(_, _)
SortedFrom(S, least) ==
    IF S = {least} THEN <<least>>
    ELSE <<least>> \o SortedFrom(S \ {least}, MinText(S \ {least}))

\* sorted(out)
Sorted(S) == IF S = {} THEN <<>> ELSE SortedFrom(S, MinText(S))

\* d is a date and not (d < DATO_START or d > DATO_END)
DateInWindow(d) ==
    /\ ~IsNone(d)
    /\ ~DateLess(Get(d), DATO_START)
    /\ ~DateLess(DATO_END, Get(d))

InWindow(fn) == DateInWindow(parse_file_date_from_name(fn))

\* fn not in ing or float(ing[fn]) != float(mtime)
NewOrChanged(ingested_files, listing, fn) ==
    \/ fn \notin DOMAIN ingested_files
    \/ ingested_files[fn].mtime # listing[fn].mtime

\* listing: the files of CATALOG, name -> (mtime, df)
get_files_to_ingest(ingested_files, listing) ==
    Sorted({fn \in DOMAIN listing :
               InWindow(fn) /\ NewOrChanged(ingested_files, listing, fn)})

\* ------------------------------------------------------------------------
\* Source files of the model
\* ------------------------------------------------------------------------
\* a frame from its header line and its rows of cells, as read_csv builds it
Frame(header, cells) ==
    LET at(h) == CHOOSE j \in 1..Len(header) : header[j] = h
    IN  [columns |-> {header[j] : j \in 1..Len(header)},
         rows |-> [i \in 1..Len(cells) |->
                      [h \in {header[j] : j \in 1..Len(header)} |-> cells[i][at(h)]]]]

NaN == None

Header ==
    <<"ISIN", "New_ID", "DatoIdag", "Fornavn", "Ticker",
      "Kurs idag", "Kurs igaar", "Change", "Rank">>

\* one complete row
DfBase ==
    Frame(Header,
          << <<Some("NO1"), Some("A1"), Some("20240110"), Some("Ola"), Some("EQNR"),
               Some("101,5"), Some("100"), Some("10"), Some("1.0")>> >>)

\* the key of DfBase again: no Ticker and no Rank column, blank name and
\* price cells
DfRevised ==
    Frame(<<"ISIN", "New_ID", "DatoIdag", "Fornavn", "Etternavn",
            "Kurs idag", "Kurs igaar", "Change">>,
          << <<Some("NO1"), Some("A1"), Some("240110"), NaN, Some(" "),
               NaN, Some("0"), Some("-5")>> >>)

\* another key under other header aliases, a row without a date, and a row
\* whose ISIN cell is blank
DfOther ==
    Frame(<<"ISIN", "investor_ID", "DateToday", "FirstName", "Ticker",
            "Price today", "Price yesterday", "ChangeQty", "Rank">>,
          << <<Some("SE2"), Some("B2"), Some("2024-01-11"), Some("Kari"), Some("VOLV"),
               Some("50"), Some("49,5"), Some("3"), Some("2")>>,
             <<Some("SE2"), Some("A1"), Some("i dag"), NaN, NaN,
               Some("x"), NaN, Some("7"), Some(" ")>>,
             <<NaN, Some("B2"), Some("45302"), Some("Kari"), NaN,
               NaN, Some("12"), Some("1"), NaN>> >>)

\* a row whose Rank cell is no number
DfBadRank ==
    Frame(Header,
          << <<Some("NO1"), Some("B2"), Some("20240110"), Some("Kari"), Some("EQNR"),
               Some("101,5"), Some("100"), Some("10"), Some("abc")>> >>)

\* no alias of the observation date column
DfNoDate ==
    Frame(<<"ISIN", "New_ID", "Fornavn">>,
          << <<Some("NO1"), Some("A1"), Some("Ola")>> >>)

Frames == {DfBase, DfRevised, DfOther, DfBadRank, DfNoDate}

FileA == F_PREFIX \o "240110.csv"

FileB == F_PREFIX \o "240111.csv"

CatalogNames == {FileA, FileB}

\* a file is written at most MaxMtime times; its modification time is the
\* number of times it was written
MaxMtime == 2

\* ------------------------------------------------------------------------
\* State
\* ------------------------------------------------------------------------
VARIABLES
    catalog,   \* the files of CATALOG: name -> [mtime, df]
    disk,      \* the committed tables of the local FULL store
    conn,      \* the tables as main's connection sees them (uncommitted work included)
    pc,        \* "idle", or where main is: "ingest", "raised", "refresh"
    files,     \* main's list files
    i,         \* how many files of the list ingest_one_file has finished
    error,     \* the exception in flight, None if there is none
    call,      \* history: the ingest_one_file call of the last step (None if the
               \* step was no call), with the tables before it
    base,      \* history: the store as the first completed run over this catalog left it
    layout,    \* the columns of the tables of the local FULL store, in their order
    recent,    \* the store at the path of the RECENT store, None if there is no file
    answer     \* what the last analytical query returned, None before any query

vars == <<catalog, disk, conn, pc, files, i, error, call, base, layout, recent, answer>>

Init ==
    /\ catalog = <<>>
    /\ disk = EmptyStore
    /\ conn = EmptyStore
    /\ pc = "idle"
    /\ files = <<>>
    /\ i = 0
    /\ error = None
    /\ call = None
    /\ base = None
    /\ layout = SchemaLayout
    /\ recent = None
    /\ answer = None

\* the time of the wall clock, counted in writes into CATALOG
Now == LET RECURSIVE Sum(_)
           Sum(S) == IF S = {} THEN 0
                     ELSE LET fn == CHOOSE f \in S : TRUE
                          IN  catalog[fn].mtime + Sum(S \ {fn})
       IN  Sum(DOMAIN catalog)

\* the modification time the next write gives the file fn
NextMtime(fn) == IF fn \in DOMAIN catalog THEN catalog[fn].mtime + 1 ELSE 1

\* the environment writes a file into CATALOG (a new file, new content, or a
\* touch), between runs
WriteFile(fn, df) ==
    /\ pc = "idle"
    /\ NextMtime(fn) <= MaxMtime
    /\ catalog' = (fn :> [mtime |-> NextMtime(fn), df |-> df]) @@ catalog
    /\ base' = None
    /\ call' = None
    /\ UNCHANGED <<layout, recent, answer, disk, conn, pc, files, i, error>>

\* main up to the loop: the local FULL store exists and passes its check, the
\* schema statements change no row, get_files_to_ingest
StartRun ==
    /\ pc = "idle"
    /\ conn' = disk
    /\ files' = get_files_to_ingest(disk.ingested_files, catalog)
    /\ i' = 0
    /\ pc' = "ingest"
    /\ call' = None
    /\ UNCHANGED <<layout, recent, answer, catalog, disk, error, base>>

\* ingest_one_file returned, with the ledger entry committed on its own
Returned_ledger_committed(fn, r) ==
    /\ ~r.raised
    /\ conn' = r.conn
    /\ disk' = IF (i + 1) % COMMIT_EVERY = 0 THEN r.conn
               ELSE [disk EXCEPT !.ingested_files = r.conn.ingested_files]
    /\ call' = Some([filename |-> fn, before |-> conn, raised |-> FALSE])
    /\ i' = i + 1
    /\ UNCHANGED <<layout, recent, answer, catalog, pc, files, error, base>>

\* ingest_one_file returned r for the file fn: commit on every 25th file
Returned(fn, r) ==
    /\ ~r.raised
    /\ conn' = r.conn
    /\ disk' = IF (i + 1) % COMMIT_EVERY = 0 THEN r.conn ELSE disk
    /\ call' = Some([filename |-> fn, before |-> conn, raised |-> FALSE])
    /\ i' = i + 1
    /\ UNCHANGED <<layout, recent, answer, catalog, pc, files, error, base>>

\* ingest_one_file raised r.error for the file fn and left the tables r.conn
Raised(fn, r) ==
    /\ r.raised
    /\ conn' = r.conn
    /\ error' = Some(r.error)
    /\ call' = Some([filename |-> fn, before |-> conn, raised |-> TRUE])
    /\ pc' = "raised"
    /\ UNCHANGED <<layout, recent, answer, catalog, disk, files, i, base>>

\* one turn of the loop: ingest_one_file returns
IngestFile ==
    /\ pc = "ingest"
    /\ i < Len(files)
    /\ Returned(files[i + 1],
                ingest_one_file(conn, catalog[files[i + 1]], files[i + 1], Now))

\* one turn of the loop: ingest_one_file raises
IngestRaises ==
    /\ pc = "ingest"
    /\ i < Len(files)
    /\ Raised(files[i + 1],
              ingest_one_file(conn, catalog[files[i + 1]], files[i + 1], Now))

\* the exception leaves main through finally: conn.close(), which drops the
\* open transaction; the process ends
CloseOnError ==
    /\ pc = "raised"
    /\ conn' = disk
    /\ pc' = "idle"
    /\ files' = <<>>
    /\ i' = 0
    /\ error' = None
    /\ call' = None
    /\ UNCHANGED <<layout, recent, answer, catalog, disk, base>>

\* the process dies during the batch: the open transaction is lost
Crash ==
    /\ pc \in {"ingest", "refresh"}
    /\ conn' = disk
    /\ pc' = "idle"
    /\ files' = <<>>
    /\ i' = 0
    /\ call' = None
    /\ UNCHANGED <<layout, recent, answer, catalog, disk, error, base>>

\* after the loop: the final commit
FinalCommit ==
    /\ pc = "ingest"
    /\ i = Len(files)
    /\ disk' = conn
    /\ pc' = "refresh"
    /\ call' = None
    /\ UNCHANGED <<layout, recent, answer, catalog, conn, files, i, error, base>>

\* the backfill of last_price with its commit, and the end of the run
Refresh ==
    /\ pc = "refresh"
    /\ disk' = refresh_security_last_price_from_position_change(conn)
    /\ conn' = disk'
    /\ pc' = "idle"
    /\ files' = <<>>
    /\ i' = 0
    /\ call' = None
    /\ base' = IF IsNone(base) THEN Some([store |-> disk', again |-> FALSE])
               ELSE Some([Get(base) EXCEPT !.again = TRUE])
    /\ UNCHANGED <<layout, recent, answer, catalog, error>>

Next ==
    \/ \E fn \in CatalogNames, df \in Frames : WriteFile(fn, df)
    \/ StartRun
    \/ IngestFile
    \/ IngestRaises
    \/ CloseOnError
    \/ Crash
    \/ FinalCommit
    \/ Refresh

Spec == Init /\ [][Next]_vars

\* ------------------------------------------------------------------------
\* get_files_to_ingest on its own: any listing of CATALOG against any ledger
\* ------------------------------------------------------------------------
FileLenient == F_PREFIX \o "24+1+5.csv"

FileBefore == F_PREFIX \o "201231.csv"

FileAfter == F_PREFIX \o "360101.csv"

FileNoDay == F_PREFIX \o "240230.csv"

FileShort == F_PREFIX \o "2401"

FileCopy == "Copy_" \o FileA

SelectNames ==
    {FileA, FileB, FileLenient, FileBefore, FileAfter, FileNoDay, FileShort, FileCopy}

\* the names the ledger of the model may hold
LedgerNames == {FileA, FileLenient}

InitSelect ==
    /\ \E S \in SUBSET SelectNames :
          \E m \in [S \cap LedgerNames -> 1..MaxMtime] :
             catalog = [fn \in S |->
                          [mtime |-> IF fn \in LedgerNames THEN m[fn] ELSE 1,
                           df |-> DfBase]]
    /\ \E S \in SUBSET LedgerNames :
          \E m \in [S -> 1..MaxMtime] :
             disk = [EmptyStore EXCEPT
                        !.ingested_files =
                            [fn \in S |-> [mtime |-> m[fn], ingested_at |-> 0]]]
    /\ conn = disk
    /\ pc = "select"
    /\ files = <<>>
    /\ i = 0
    /\ error = None
    /\ call = None
    /\ base = None
    /\ layout = SchemaLayout
    /\ recent = None
    /\ answer = None

SelectFiles ==
    /\ pc = "select"
    /\ files' = get_files_to_ingest(conn.ingested_files, catalog)
    /\ pc' = "selected"
    /\ UNCHANGED <<layout, recent, answer, catalog, disk, conn, i, error, call, base>>

NextSelect == SelectFiles

SpecSelect == InitSelect /\ [][NextSelect]_vars

\* ------------------------------------------------------------------------
\* The analytical queries and the backfill over any store of a few fact rows
\* ------------------------------------------------------------------------
\* a row of position_change as ingest_one_file writes it
FactOf(isin, investor_id, date_today, change_qty, price_today, price_yesterday) ==
    [isin |-> isin, investor_id |-> investor_id, date_today |-> Some(date_today),
     date_yesterday |-> None, source_file |-> FileA,
     holding_today |-> None, holding_yesterday |-> None,
     price_today |-> price_today, price_yesterday |-> price_yesterday,
     change_qty |-> change_qty, abs_change_qty |-> None, change_percent |-> None,
     flag_new_source |-> None, flag_exit_source |-> None, rank |-> None]

\* a table of position_change from a set of rows
TableOf(rows) ==
    [k \in {<<r.isin, r.investor_id, Get(r.date_today)>> : r \in rows} |->
        CHOOSE r \in rows : <<r.isin, r.investor_id, Get(r.date_today)>> = k]

SecurityOf(ticker, last_price) ==
    [a \in DOMAIN SecurityTextCols |-> IF a = "ticker" THEN Some(ticker) ELSE None]
    @@ [issued_shares |-> None, last_price |-> last_price]

InvestorOf(first_name) ==
    [a \in DOMAIN InvestorCols |-> IF a = "first_name" THEN Some(first_name) ELSE None]

\* the last day of a month and the day after it
Day1 == "2024-01-31"

Day2 == "2024-02-01"

\* the first fact row: any quantity and any recorded price
Facts1 ==
    {FactOf("NO1", "A1", Day1, q, pt, py) :
        q \in {None, Some(1000), Some(0 - 1000)},
        pt \in {None, Some(9900)},
        py \in {None, Some(0), Some(0 - 500), Some(10000)}}

\* a fact row of another investor on the next day, of the same or another security
Facts2 ==
    {FactOf(s, "B2", Day2, Some(300), None, py) :
        s \in {"NO1", "SE2"}, py \in {None, Some(10500)}}

\* a fact row of the same investor and security on the next day
Facts3 ==
    {FactOf("NO1", "A1", Day2, Some(0 - 400), None, py) : py \in {Some(0), Some(10700)}}

\* each of Facts2 and Facts3 gives one row or none
FactTables ==
    {TableOf({r1} \cup R2 \cup R3) :
        r1 \in Facts1,
        R2 \in {{}} \cup {{r} : r \in Facts2},
        R3 \in {{}} \cup {{r} : r \in Facts3}}

StoreOf(position_change, last_price) ==
    [ingested_files  |-> (FileA :> [mtime |-> 1, ingested_at |-> 1]),
     investor        |-> ("A1" :> InvestorOf("Ola") @@ "B2" :> InvestorOf("Kari")),
     security        |-> ("NO1" :> SecurityOf("EQNR", last_price)
                          @@ "SE2" :> SecurityOf("VOLV", None)),
     position_change |-> position_change]

InitAnalysis ==
    /\ \E t \in FactTables, lp \in {None, Some(7700)} : disk = StoreOf(t, lp)
    /\ conn = disk
    /\ catalog = <<>>
    /\ pc = "idle"
    /\ files = <<>>
    /\ i = 0
    /\ error = None
    /\ call = None
    /\ base = None
    /\ layout = SchemaLayout
    /\ recent = None
    /\ answer = None

\* the periods the pages ask for: both days, or the first day only
Periods == {<<Day1, Day2>>, <<Day1, Day1>>}

\* what a query leaves alone: everything but its answer
queried == <<catalog, disk, conn, pc, files, i, error, call, base, layout, recent>>

\* a page asks one query of the store (the queries write nothing, so a
\* second query would see the same store)
QueryEier ==
    /\ IsNone(answer)
    /\ \E v \in {"A1", "B2"}, per \in Periods :
          answer' = Some(fetch_aggregated_by_security(disk, v, per[1], per[2]))
    /\ UNCHANGED queried

QueryAksje ==
    /\ IsNone(answer)
    /\ \E s \in {"NO1", "SE2"}, per \in Periods :
          answer' = Some(fetch_buy_sell_by_investor(disk, s, per[1], per[2]))
    /\ UNCHANGED queried

QueryTop ==
    /\ IsNone(answer)
    /\ \E sel \in {{"A1"}, {"A1", "B2"}}, per \in Periods :
          answer' = Some(fetch_top_by_security(disk, sel, per[1], per[2]))
    /\ UNCHANGED queried

QueryBest ==
    /\ IsNone(answer)
    /\ \E per \in Periods, min_trades \in {1, 2} :
          answer' = Some(compute_best_investors(disk, per[1], per[2], min_trades,
                                                security_last_price_map(disk.security)))
    /\ UNCHANGED queried

\* the backfill pass on the store
Backfill ==
    /\ pc = "idle"
    /\ disk' = refresh_security_last_price_from_position_change(disk)
    /\ conn' = disk'
    /\ pc' = "refreshed"
    /\ answer' = None
    /\ IsNone(answer)
    /\ UNCHANGED <<catalog, files, i, error, call, base, layout, recent>>

NextAnalysis == QueryEier \/ QueryAksje \/ QueryTop \/ QueryBest \/ Backfill

SpecAnalysis == InitAnalysis /\ [][NextAnalysis]_vars

\* ------------------------------------------------------------------------
\* Schema setup over a store of any earlier layout
\* ------------------------------------------------------------------------
\* how often the setup runs over one store
MaxSetups == 2

\* the column list cols without column c
drop_column(cols, c) == SelectSeq(cols, LAMBDA x : x # c)

\* the layouts a table of an earlier store can have: the one of SCHEMA_SQL,
\* the one before the column was introduced, the one ALTER TABLE left
LayoutsOf(t) ==
    IF t = "security"
    THEN {SchemaLayout[t], drop_column(SchemaLayout[t], "last_price")}
    ELSE IF t = "position_change"
    THEN {SchemaLayout[t], drop_column(SchemaLayout[t], "price_today"),
          Append(drop_column(SchemaLayout[t], "price_today"), "price_today")}
    ELSE {SchemaLayout[t]}

\* a row of table t under SCHEMA_SQL
SampleRow(t) ==
    IF t = "ingested_files" THEN (FileA :> [mtime |-> 1, ingested_at |-> 1])
    ELSE IF t = "investor" THEN ("A1" :> InvestorOf("Ola"))
    ELSE IF t = "security" THEN ("NO1" :> SecurityOf("EQNR", Some(7700)))
    ELSE TableOf({FactOf("NO1", "A1", Day1, Some(1000), Some(9900), Some(10000))})

\* the table t of an earlier store: its row, if it has one, has the columns
\* the table has
TableUnder(t, cols, filled) ==
    IF ~filled THEN <<>>
    ELSE [k \in DOMAIN SampleRow(t) |->
             [c \in DOMAIN SampleRow(t)[k] \cap Columns(cols) |-> SampleRow(t)[k][c]]]

\* the layouts of the four tables of an earlier store
EarlierLayouts ==
    {[t \in Tables |-> IF t = "security" THEN s
                       ELSE IF t = "position_change" THEN p ELSE SchemaLayout[t]] :
        s \in LayoutsOf("security"), p \in LayoutsOf("position_change")}

\* the stores schema setup can meet: each table absent or present, present
\* in one of its layouts, with one row or none
EarlierStores ==
    {Database([t \in P |-> lay[t]],
              [t \in Tables |-> TableUnder(t, lay[t], t \in P \cap F)]) :
        P \in SUBSET Tables, F \in SUBSET Tables, lay \in EarlierLayouts}

InitSchema ==
    /\ \E db \in EarlierStores :
          /\ layout = db.layout
          /\ disk = db.tables
          /\ base = Some(db)
    /\ conn = disk
    /\ catalog = <<>>
    /\ pc = "idle"
    /\ files = <<>>
    /\ i = 0
    /\ error = None
    /\ call = None
    /\ recent = None
    /\ answer = None

\* conn.executescript(SCHEMA_SQL) on a connection to the store
SchemaScript ==
    /\ pc \in {"idle", "set up"}
    /\ i < MaxSetups
    /\ LET db == executescript_schema(Database(layout, disk))
       IN  /\ layout' = db.layout
           /\ disk' = db.tables
           /\ conn' = db.tables
    /\ pc' = "schema"
    /\ UNCHANGED <<catalog, files, i, error, call, base, recent, answer>>

\* ensure_security_last_price_column(conn)
EnsureLastPrice ==
    /\ pc = "schema"
    /\ LET db == ensure_security_last_price_column(Database(layout, disk))
       IN  /\ layout' = db.layout
           /\ disk' = db.tables
           /\ conn' = db.tables
    /\ pc' = "last_price"
    /\ UNCHANGED <<catalog, files, i, error, call, base, recent, answer>>

\* ensure_position_change_price_today_column(conn); the setup is done
EnsurePriceToday ==
    /\ pc = "last_price"
    /\ LET db == ensure_position_change_price_today_column(Database(layout, disk))
       IN  /\ layout' = db.layout
           /\ disk' = db.tables
           /\ conn' = db.tables
           /\ call' = IF i = 0 THEN Some(db) ELSE call
    /\ pc' = "set up"
    /\ i' = i + 1
    /\ UNCHANGED <<catalog, files, error, base, recent, answer>>

NextSchema == SchemaScript \/ EnsureLastPrice \/ EnsurePriceToday

SpecSchema == InitSchema /\ [][NextSchema]_vars

\* ------------------------------------------------------------------------
\* build_recent_db: the RECENT store from the local FULL store
\* ------------------------------------------------------------------------
\* how many builds of the RECENT store start
MaxBuilds == 2

\* the declared type of the columns of position_change
ColumnType ==
    [isin |-> "TEXT", investor_id |-> "TEXT", date_today |-> "TEXT",
     date_yesterday |-> "TEXT", holding_today |-> "REAL", holding_yesterday |-> "REAL",
     price_today |-> "REAL", price_yesterday |-> "REAL", change_qty |-> "REAL",
     abs_change_qty |-> "REAL", change_percent |-> "REAL",
     flag_new_source |-> "INTEGER", flag_exit_source |-> "INTEGER", rank |-> "INTEGER",
     source_file |-> "TEXT"]

\* the columns of position_change declared NOT NULL
NotNullColumns == {"isin", "investor_id", "date_today", "source_file"}

\* the columns a row of position_change holds as plain text
PlainColumns == {"isin", "investor_id", "source_file"}

\* the decimal digits of a natural number
RECURSIVE NatText(_)
NatText(n) ==
    IF n < 10 THEN Char(Digits, n + 1)
    ELSE NatText(n \div 10) \o Char(Digits, (n % 10) + 1)

\* the text SQLite gives a REAL (h hundredths): 99.0, 101.5, 99.25
real_text(h) ==
    (IF h < 0 THEN "-" ELSE "")
    \o NatText(Abs(h) \div 100) \o "."
    \o (IF Abs(h) % 10 = 0 THEN Char(Digits, ((Abs(h) % 100) \div 10) + 1)
        ELSE TwoDigits(Abs(h) % 100))

\* the value a column of type to stores for a value of type from: column
\* affinity. A text that is no numeral (a file name, a date) stays a text.
affinity(v, from, to) ==
    IF IsNone(v) \/ from = to THEN v
    ELSE IF from = "INTEGER" /\ to = "REAL" THEN Some(Get(v) * 100)
    ELSE IF from = "REAL" /\ to = "INTEGER"
         THEN (IF Get(v) % 100 = 0 THEN Some(Get(v) \div 100) ELSE v)
    ELSE IF from = "REAL" /\ to = "TEXT" THEN Some(real_text(Get(v)))
    ELSE IF from = "INTEGER" /\ to = "TEXT"
         THEN Some((IF Get(v) < 0 THEN "-" ELSE "") \o NatText(Abs(Get(v))))
    ELSE v

\* the SQL value of column c of a row of position_change
sql_value(r, c) == IF c \in PlainColumns THEN Some(r[c]) ELSE r[c]

\* SELECT * FROM src.position_change: the values of a row in the order of
\* the columns of the source table
select_star(cols, r) == [j \in 1..Len(cols) |-> sql_value(r, cols[j])]

\* the position of column c in a column list
ColumnIndex(cols, c) == CHOOSE j \in 1..Len(cols) : cols[j] = c

\* INSERT INTO position_change SELECT *: the j-th value goes to the j-th
\* column of the target table
inserted_values(src_cols, r) ==
    [c \in Columns(SchemaLayout.position_change) |->
        LET j == ColumnIndex(SchemaLayout.position_change, c)
        IN  affinity(select_star(src_cols, r)[j], ColumnType[src_cols[j]], ColumnType[c])]

\* the INSERT fails on a NULL for a NOT NULL column
insert_raises(vals) == \E c \in NotNullColumns : IsNone(vals[c])

\* the row of position_change the values make
inserted_row(vals) ==
    [c \in DOMAIN vals |-> IF c \in PlainColumns THEN Get(vals[c]) ELSE vals[c]]

\* WHERE date_today >= ?: the keys of the rows at or after date_from, as texts
from_date(position_change, date_from) ==
    {k \in DOMAIN position_change :
        ~StrLess(Get(position_change[k].date_today), date_from)}

\* the rows the statement INSERT INTO position_change SELECT * ... selects
selected_values(src, date_from) ==
    [k \in from_date(src.tables.position_change, date_from) |->
        inserted_values(src.layout.position_change, src.tables.position_change[k])]

copy_raises(src, date_from) ==
    \E k \in from_date(src.tables.position_change, date_from) :
        insert_raises(selected_values(src, date_from)[k])

\* BEGIN ... COMMIT of build_recent_db: the four INSERT ... SELECT *. The
\* tables investor, security and ingested_files of the source have the
\* column order of SCHEMA_SQL (last_price is the last column in both).
copy_from_source(src, date_from) ==
    [ingested_files  |-> src.tables.ingested_files,
     investor        |-> src.tables.investor,
     security        |-> src.tables.security,
     position_change |->
         [k \in from_date(src.tables.position_change, date_from) |->
             inserted_row(selected_values(src, date_from)[k])]]

\* a new file at the output path after the schema script and the helpers
new_store ==
    ensure_position_change_price_today_column(
        ensure_security_last_price_column(
            executescript_schema(Database(<<>>, EmptyStore))))

\* position_change as a store keeps it whose price_today column came by
\* ALTER TABLE
MigratedLayout ==
    [SchemaLayout EXCEPT !.position_change =
        Append(drop_column(@, "price_today"), "price_today")]

Day3 == "2024-02-02"

\* the fact rows of the FULL store: one of the last day of January and
\* at most one of the day after
RecentFacts ==
    {TableOf({r1} \cup R2) :
        r1 \in {FactOf("NO1", "A1", Day1, Some(1000), pt, py) :
                   pt \in {None, Some(9900)}, py \in {None, Some(10000)}},
        R2 \in {{}} \cup {{FactOf("SE2", "B2", Day2, Some(300), pt, None)} :
                            pt \in {None, Some(5000)}}}

\* the FULL store as main leaves it (the backfill has run), in either layout
InitRecent ==
    /\ \E t \in RecentFacts :
          disk = refresh_security_last_price_from_position_change(StoreOf(t, None))
    /\ layout \in {SchemaLayout, MigratedLayout}
    /\ conn = disk
    /\ catalog = <<>>
    /\ pc = "idle"
    /\ files = <<>>
    /\ i = 0
    /\ error = None
    /\ call = None
    /\ base = None
    /\ recent = None
    /\ answer = None

\* what build_recent_db leaves alone: the FULL store and main's state
built == <<catalog, disk, conn, files, layout, base, answer>>

\* build_recent_db is called: nuke_sqlite_files(out_db_path)
NukeRecent ==
    /\ pc \in {"idle", "failed"}
    /\ i < MaxBuilds
    /\ \E date_from \in {Day1, Day2, Day3} :
          call' = Some([date_from |-> date_from, before |-> recent])
    /\ recent' = None
    /\ pc' = "nuked"
    /\ i' = i + 1
    /\ error' = None
    /\ UNCHANGED built

\* connect, SCHEMA_SQL, the column helpers
CreateRecent ==
    /\ pc = "nuked"
    /\ recent' = Some(new_store)
    /\ pc' = "created"
    /\ UNCHANGED <<i, error, call>>
    /\ UNCHANGED built

\* ATTACH, BEGIN, the four INSERTs, COMMIT
CopyRecent ==
    /\ pc = "created"
    /\ ~copy_raises(Database(layout, disk), Get(call).date_from)
    /\ recent' = Some(Database(Get(recent).layout,
                               copy_from_source(Database(layout, disk),
                                                Get(call).date_from)))
    /\ pc' = "copied"
    /\ UNCHANGED <<i, error, call>>
    /\ UNCHANGED built

\* an INSERT raises: conn.close() rolls the transaction back, the error
\* leaves build_recent_db and main
CopyRaises ==
    /\ pc = "created"
    /\ copy_raises(Database(layout, disk), Get(call).date_from)
    /\ error' = Some("IntegrityError")
    /\ pc' = "failed"
    /\ UNCHANGED <<i, recent, call>>
    /\ UNCHANGED built

\* refresh_security_last_price_from_position_change(conn), checkpoint,
\* close: build_recent_db returns
RefreshRecent ==
    /\ pc = "copied"
    /\ recent' = Some(Database(Get(recent).layout,
                      refresh_security_last_price_from_position_change(Get(recent).tables)))
    /\ pc' = "built"
    /\ UNCHANGED <<i, error, call>>
    /\ UNCHANGED built

\* integrity_ok(DB_PATH_LOCAL_RECENT): main ends
CheckRecent ==
    /\ pc = "built"
    /\ pc' = "idle"
    /\ UNCHANGED <<i, error, call, recent>>
    /\ UNCHANGED built

\* the process is stopped while build_recent_db runs
StopRecent ==
    /\ pc \in {"nuked", "created", "copied"}
    /\ pc' = "failed"
    /\ error' = Some("KeyboardInterrupt")
    /\ UNCHANGED <<i, call, recent>>
    /\ UNCHANGED built

NextRecent ==
    \/ NukeRecent
    \/ CreateRecent
    \/ CopyRecent
    \/ CopyRaises
    \/ RefreshRecent
    \/ CheckRecent
    \/ StopRecent

SpecRecent == InitRecent /\ [][NextRecent]_vars

\* ------------------------------------------------------------------------
\* normalize_date over the encodings of a calendar day
\* ------------------------------------------------------------------------
\* the leap years among the years 1..n
LeapYearsTo(n) == (n \div 4) - (n \div 100) + (n \div 400)

\* the days of the years from..(to - 1)
DaysOfYears(from, to) ==
    365 * (to - from) + LeapYearsTo(to - 1) - LeapYearsTo(from - 1)

\* the days of the months 1..(m - 1) of year y
RECURSIVE DaysOfMonths(_, _)
DaysOfMonths(y, m) ==
    IF m <= 1 THEN 0 ELSE DaysInMonth(y, m - 1) + DaysOfMonths(y, m - 1)

\* the day number a spreadsheet gives a day from 1900 on: the days since
\* 1899-12-30 (1900-01-01 is day 2)
SerialOfDay(d) == 2 + DaysOfYears(1900, d[1]) + DaysOfMonths(d[1], d[2]) + (d[3] - 1)

\* the cell texts a file can hold for the day d: YYYYMMDD, with YYMMDD for a
\* day of 2000..2099, with the day number if that is in 20000..80000, with
\* YYYY-MM-DD, and the first of them with blanks around it
CellsOfDay(d) ==
    {TwoDigits(d[1] \div 100) \o TwoDigits(d[1] % 100) \o TwoDigits(d[2]) \o TwoDigits(d[3]),
     " " \o TwoDigits(d[1] \div 100) \o TwoDigits(d[1] % 100) \o TwoDigits(d[2])
         \o TwoDigits(d[3]) \o " ",
     IsoFormat(d)}
    \cup (IF d[1] >= 2000 /\ d[1] <= 2099
          THEN {TwoDigits(d[1] % 100) \o TwoDigits(d[2]) \o TwoDigits(d[3])} ELSE {})
    \cup (IF d[1] >= 1900 /\ SerialOfDay(d) >= 20000 /\ SerialOfDay(d) <= 80000
          THEN {NatText(SerialOfDay(d))} ELSE {})

\* cells that name no day: blank, nan, a day no month has, a month no year
\* has, a word; and the missing cell
CellsOfNoDay ==
    {Some(""), Some("  "), Some("nan"), Some("NaN"), Some(" nan "),
     Some("20240230"), Some("20231301"), Some("00000101"), Some("240230"),
     Some("241301"), Some("230229"), Some("2024-02-30"), Some("abc"), None}

\* the days of the cells: first, middle and last days of months at the
\* ends of years, with and without a leap day
DaysOfCells ==
    {x \in {<<y, m, d>> : y \in {1954, 1999, 2000, 2023, 2024, 2099, 2100},
                          m \in {1, 2, 3, 12}, d \in {1, 15, 28, 29, 31}} :
        IsDate(x[1], x[2], x[3])}

InitDate ==
    /\ call \in {Some(d) : d \in DaysOfCells} \cup {None}
    /\ catalog = <<>>
    /\ disk = EmptyStore
    /\ conn = EmptyStore
    /\ pc = "idle"
    /\ files = <<>>
    /\ i = 0
    /\ error = None
    /\ base = None
    /\ layout = SchemaLayout
    /\ recent = None
    /\ answer = None

\* normalize_date(value) for a cell of the day, or for a cell of no day
NormalizeDate ==
    /\ IsNone(answer)
    /\ \E value \in (IF IsNone(call) THEN CellsOfNoDay
                     ELSE {Some(c) : c \in CellsOfDay(Get(call))}) :
          answer' = Some([value |-> value, date |-> normalize_date(value)])
    /\ UNCHANGED queried

NextDate == NormalizeDate

SpecDate == InitDate /\ [][NextDate]_vars

\* ------------------------------------------------------------------------
\* ensure_local_db: a remote database staged at the local path
\* ------------------------------------------------------------------------
\* In this specification catalog holds the files of the two remote
\* databases, base the files at the local path, call the last call of
\* ensure_local_db.

\* a file: what it holds, st_mtime in seconds, st_size
FileOf(content, mtime, size) == [content |-> content, mtime |-> mtime, size |-> size]

\* a database on disk: the main file and the -wal and -shm files beside it
\* (None for a file that does not exist)
DbFiles(main, wal, shm) == [main |-> main, wal |-> wal, shm |-> shm]

NoFiles == DbFiles(None, None, None)

\* the states of the database at remote path r in version v: of either
\* size, with or without sidecar files
RemoteStates(r, v, mtimes) ==
    {DbFiles(Some(FileOf(<<r, v>>, t, size)),
             IF side THEN Some(FileOf(<<r, v, "-wal">>, t, 1)) ELSE None,
             IF side THEN Some(FileOf(<<r, v, "-shm">>, t, 1)) ELSE None) :
        t \in mtimes, size \in {1, 2}, side \in BOOLEAN}

\* _copy_with_progress(src, dst): the bytes, then shutil.copystat
\* shutil.copy2(src, dst): the bytes and the metadata
copy_file(src) == src

\* the decision of ensure_local_db to copy
do_copy(remote, local, force) ==
    \/ force
    \/ IsNone(local.main)
    \/ Get(remote.main).mtime > Get(local.main).mtime + 1
    \/ Get(remote.main).size # Get(local.main).size

\* the sidecar ext at the local path after the loop over ("-wal", "-shm"):
\* copied if the remote one exists, left as it is otherwise
copy_sidecar(remote, local, ext, copy_wal_shm) ==
    IF copy_wal_shm /\ ~IsNone(remote[ext]) THEN copy_file(remote[ext]) ELSE local[ext]

\* the local files after ensure_local_db(remote, local, force=force,
\* copy_wal_shm=True) for a remote main file that exists
ensure_local_db(remote, local, force) ==
    IF ~do_copy(remote, local, force)
    THEN [copied |-> FALSE, local |-> local]
    ELSE [copied |-> TRUE,
          local  |-> DbFiles(copy_file(remote.main),
                             copy_sidecar(remote, local, "wal", TRUE),
                             copy_sidecar(remote, local, "shm", TRUE))]

\* the two choices of the download handler
RemotePaths == {"DB_PATH_REMOTE_RECENT", "DB_PATH_REMOTE_FULL"}

InitStage ==
    /\ \E full \in RemoteStates("DB_PATH_REMOTE_FULL", 1, {1}),
          rec \in RemoteStates("DB_PATH_REMOTE_RECENT", 1, {1}) \cup {NoFiles} :
          catalog = [r \in RemotePaths |->
                        IF r = "DB_PATH_REMOTE_FULL" THEN full ELSE rec]
    /\ base = NoFiles
    /\ call = None
    /\ pc = "idle"
    /\ error = None
    /\ disk = EmptyStore
    /\ conn = EmptyStore
    /\ files = <<>>
    /\ i = 0
    /\ layout = SchemaLayout
    /\ recent = None
    /\ answer = None

\* the download handler calls ensure_local_db for the chosen database
Stage ==
    /\ \E r \in RemotePaths, force \in BOOLEAN :
          /\ ~IsNone(catalog[r].main)
          /\ base' = ensure_local_db(catalog[r], base, force).local
          /\ call' = Some([remote_db_path |-> r, force |-> force,
                           copied |-> ensure_local_db(catalog[r], base, force).copied])
    /\ pc' = "staged"
    /\ error' = None
    /\ UNCHANGED <<catalog, disk, conn, files, i, layout, recent, answer>>

\* the remote file does not exist
StageRaises ==
    /\ \E r \in RemotePaths :
          /\ IsNone(catalog[r].main)
          /\ call' = Some([remote_db_path |-> r, force |-> FALSE, copied |-> FALSE])
    /\ pc' = "raised"
    /\ error' = Some("FileNotFoundError")
    /\ UNCHANGED <<catalog, base, disk, conn, files, i, layout, recent, answer>>

\* a build is put at a remote path: the next version of that database,
\* written in the same second or later
RemoteReplaced ==
    /\ \E r \in RemotePaths :
          /\ ~IsNone(catalog[r].main)
          /\ Get(catalog[r].main).content[2] = 1
          /\ \E db \in RemoteStates(r, 2, {1, 2, 3}) :
                catalog' = [catalog EXCEPT ![r] = db]
    /\ call' = None
    /\ pc' = "idle"
    /\ error' = None
    /\ UNCHANGED <<base, disk, conn, files, i, layout, recent, answer>>

NextStage == Stage \/ StageRaises \/ RemoteReplaced

SpecStage == InitStage /\ [][NextStage]_vars

\* ------------------------------------------------------------------------
\* Staging while a writer commits to the source
\* ------------------------------------------------------------------------
\* In this specification catalog holds the files of the source database,
\* base the files of the copy, i the last committed version of the source,
\* call the routine that copies. The main file is two chunks of pages, each
\* of the version that wrote it; the -wal file holds the pages of the
\* commits since the last checkpoint (0: the file is empty).

\* how many commits the writer makes
MaxCommits == 2

\* the pages a reader of the files sees: those of the -wal if it holds a
\* commit, those of the main file otherwise
pages_read(db) ==
    IF ~IsNone(db.wal) /\ Get(db.wal) > 0
    THEN <<Get(db.wal), Get(db.wal)>>
    ELSE Get(db.main)

InitCopy ==
    /\ \E wal \in {None, Some(0)} : catalog = DbFiles(Some(<<1, 1>>), wal, wal)
    /\ base = NoFiles
    /\ i = 1
    /\ pc = "idle"
    /\ call = None
    /\ error = None
    /\ disk = EmptyStore
    /\ conn = EmptyStore
    /\ files = <<>>
    /\ layout = SchemaLayout
    /\ recent = None
    /\ answer = None

copying == <<disk, conn, files, layout, recent, answer, error>>

\* a connection in journal_mode=WAL commits: the pages go to the -wal
WriterCommits ==
    /\ i < 1 + MaxCommits
    /\ i' = i + 1
    /\ catalog' = [catalog EXCEPT !.wal = Some(i + 1), !.shm = Some(i + 1)]
    /\ UNCHANGED <<base, pc, call>>
    /\ UNCHANGED copying

\* PRAGMA wal_checkpoint(TRUNCATE): the pages of the -wal go to the main
\* file, the -wal is emptied
WriterCheckpoints ==
    /\ ~IsNone(catalog.wal)
    /\ Get(catalog.wal) > 0
    /\ catalog' = [catalog EXCEPT !.main = Some(pages_read(catalog)),
                                  !.wal = Some(0), !.shm = Some(0)]
    /\ UNCHANGED <<base, pc, call, i>>
    /\ UNCHANGED copying

\* _copy_with_progress opens both files and copies the first chunk
CopyFirstChunk ==
    /\ pc = "idle"
    /\ base' = [base EXCEPT !.main = Some(<<Get(catalog.main)[1], 0>>)]
    /\ pc' = "chunk"
    /\ call' = Some("ensure_local_db")
    /\ UNCHANGED <<catalog, i>>
    /\ UNCHANGED copying

\* the next fsrc.read(chunk_size), fdst.write(buf)
CopyNextChunk ==
    /\ pc = "chunk"
    /\ base' = [base EXCEPT !.main = Some(<<Get(@)[1], Get(catalog.main)[2]>>)]
    /\ pc' = "main"
    /\ UNCHANGED <<catalog, i, call>>
    /\ UNCHANGED copying

\* shutil.copy2 of the -wal if it exists
CopyWal ==
    /\ pc = "main"
    /\ base' = [base EXCEPT !.wal = copy_sidecar(catalog, base, "wal", TRUE)]
    /\ pc' = "wal"
    /\ UNCHANGED <<catalog, i, call>>
    /\ UNCHANGED copying

\* shutil.copy2 of the -shm if it exists: ensure_local_db returns
CopyShm ==
    /\ pc = "wal"
    /\ base' = [base EXCEPT !.shm = copy_sidecar(catalog, base, "shm", TRUE)]
    /\ pc' = "copied"
    /\ UNCHANGED <<catalog, i, call>>
    /\ UNCHANGED copying

\* sqlite_backup_copy(src_path, dst_path): src.backup(dst) gives the pages
\* of one read transaction
sqlite_backup_copy(src) == DbFiles(Some(pages_read(src)), None, None)

BackupCopy ==
    /\ pc = "idle"
    /\ base' = sqlite_backup_copy(catalog)
    /\ pc' = "copied"
    /\ call' = Some("sqlite_backup_copy")
    /\ UNCHANGED <<catalog, i>>
    /\ UNCHANGED copying

NextCopy ==
    \/ WriterCommits
    \/ WriterCheckpoints
    \/ CopyFirstChunk
    \/ CopyNextChunk
    \/ CopyWal
    \/ CopyShm
    \/ BackupCopy

SpecCopy == InitCopy /\ [][NextCopy]_vars

\* ------------------------------------------------------------------------
\* The analytical queries: the price relation and its join
\* ------------------------------------------------------------------------
\* the relation without GROUP BY: one row per priced fact row
prices_ungrouped(position_change) ==
    {[isin |-> position_change[k].isin,
      d |-> sql_date(position_change[k].date_today),
      p |-> Get(position_change[k].price_yesterday),
      rowid |-> k] :
        k \in {j \in DOMAIN position_change :
                  Positive(position_change[j].price_yesterday)}}

\* the CTE prices: SELECT isin, date(date_today) AS d, MAX(price_yesterday)
\* AS p ... GROUP BY isin, date(date_today)
prices(position_change) ==
    {[isin |-> g[1], d |-> g[2],
      p |-> MaxOf({Get(r.price_yesterday) : r \in
                     {q \in Priced(position_change) :
                         q.isin = g[1] /\ sql_date(q.date_today) = g[2]}})] :
        g \in {<<r.isin, sql_date(r.date_today)>> : r \in Priced(position_change)}}

\* the rows of prices that ON p2.isin = pc.isin AND p2.d = date(pc.date_today,
\* '+1 day') matches with the fact row r; a NULL day matches nothing
matching_prices(position_change, r) ==
    {p2 \in prices(position_change) :
        /\ p2.isin = r.isin
        /\ ~IsNone(p2.d)
        /\ p2.d = sql_date_plus_1_day(r.date_today)}

\* position_change pc LEFT JOIN prices p2 over the fact rows with the keys K:
\* one row per match, and one with NULLs for a fact row without a match
left_join_prices(position_change, K) ==
    UNION {IF matching_prices(position_change, position_change[k]) = {}
           THEN {[pc |-> k, p2 |-> None]}
           ELSE {[pc |-> k, p2 |-> Some(p2)] :
                    p2 \in matching_prices(position_change, position_change[k])} :
           k \in K}

\* p2.p of a row of the join
joined_price_nextday(j) == IF IsNone(j.p2) THEN None ELSE Some(Get(j.p2).p)

\* trades.trade_price of a row of the join: COALESCE(NULLIF(
\* pc.price_yesterday, 0), p2.p)
joined_trade_price(position_change, j) ==
    Coalesce(NullIf(position_change[j.pc].price_yesterday, 0),
             joined_price_nextday(j))

\* ------------------------------------------------------------------------
\* A file with several rows of one key
\* ------------------------------------------------------------------------
\* a row of the file: the key cells, and cells that differ between the rows
\* of one key
DupRow(isin, investor_id, date, v) ==
    <<Some(isin), Some(investor_id), Some(date), Some(v.name), Some(v.ticker),
      Some(v.price), Some("100"), Some(v.change), Some("1")>>

DupValues ==
    {[name |-> "Ola", ticker |-> "EQNR", price |-> "101,5", change |-> "10"],
     [name |-> "Kari", ticker |-> "VOLV", price |-> "50", change |-> "-5"]}

\* the first row: of one security and one investor, with a day or without
FirstRows ==
    {DupRow("NO1", "A1", date, v) : date \in {"20240110", "i dag"}, v \in DupValues}

\* the second row: the same security and investor or others, with spaces
\* around the key cells or without, the day in two spellings or no day
DupRows ==
    {DupRow(isin, investor_id, date, v) :
        isin \in {" NO1 ", "SE2"}, investor_id \in {"A1", "B2 "},
        date \in {"20240110", "240110", "i dag"}, v \in DupValues}

LastRows ==
    {DupRow("NO1", "A1", "2024-01-10",
            [name |-> "Per", ticker |-> "DNB", price |-> "7", change |-> "1"]),
     DupRow("SE2", "B2", "2024-01-11",
            [name |-> "Per", ticker |-> "DNB", price |-> "7", change |-> "1"])}

\* CATALOG holds one file of three rows; the store is new
InitDup ==
    /\ \E r1 \in FirstRows, r2 \in DupRows, r3 \in LastRows :
          catalog = (FileA :> [mtime |-> 1, df |-> Frame(Header, <<r1, r2, r3>>)])
    /\ disk = EmptyStore
    /\ conn = EmptyStore
    /\ pc = "idle"
    /\ files = <<>>
    /\ i = 0
    /\ error = None
    /\ call = None
    /\ base = None
    /\ layout = SchemaLayout
    /\ recent = None
    /\ answer = None

\* one batch run over the file, and the runs after it that find no file
NextDup == StartRun \/ IngestFile \/ FinalCommit \/ Refresh

SpecDup == InitDup /\ [][NextDup]_vars

\* ------------------------------------------------------------------------
\* A build run and the remote databases
\* ------------------------------------------------------------------------
\* The network share: the files of the two remote databases (catalog.paths),
\* whether remote FULL is in WAL mode (SCHEMA_SQL sets journal_mode=WAL, the
\* mode stays in the header of a file built with it), whether it passes an
\* integrity check, and whether the process may create files on the share.
\* base is the local FULL database (None if the file is missing), recent
\* the local RECENT database, i the number of connections the run has
\* opened on remote FULL, call what the run found at its start.
MaxRuns == 2

LocalDb(content, ok) == [content |-> content, ok |-> ok]

\* integrity_ok(db_path): the file exists and PRAGMA integrity_check says ok
integrity_ok(db) == ~IsNone(db) /\ Get(db).ok

\* sqlite3.connect("file:...?mode=ro") on remote FULL and the first read:
\* a database in WAL mode is read through its -wal and -shm files, which
\* SQLite creates beside the main file when they are missing (mode=ro keeps
\* the main file read-only, not the shared memory file), and the open fails
\* when it cannot create them
connect_readonly(db, share) ==
    IF share.journal_mode # "wal" \/ ~IsNone(db.shm)
    THEN [raised |-> FALSE, db |-> db]
    ELSE IF share.writable
    THEN [raised |-> FALSE,
          db |-> DbFiles(db.main,
                         Some(FileOf(<<"-wal">>, Get(db.main).mtime + 1, 0)),
                         Some(FileOf(<<"-shm">>, Get(db.main).mtime + 1, 1)))]
    ELSE [raised |-> TRUE, db |-> db]

\* ensure_local_db_or_create_empty(): the local FULL database after it, the
\* files of remote FULL, the connections opened on remote FULL, the error
ensure_local_db_or_create_empty(local, remote, share) ==
    IF integrity_ok(local)
    THEN [local |-> local, remote |-> remote, opened |-> 0, error |-> None]
    ELSE IF ~IsNone(remote.main)
    THEN (IF connect_readonly(remote, share).raised
          THEN [local |-> None, remote |-> remote, opened |-> 1,
                error |-> Some("OperationalError")]
          ELSE [local |-> Some(LocalDb(Get(remote.main).content, share.sound)),
                remote |-> connect_readonly(remote, share).db, opened |-> 1,
                error |-> IF share.sound THEN None ELSE Some("DatabaseError")])
    ELSE [local |-> Some(LocalDb("SCHEMA_SQL", TRUE)), remote |-> remote,
          opened |-> 0, error |-> None]

InitPush ==
    /\ \E full \in RemoteStates("DB_PATH_REMOTE_FULL", 1, {1}) \cup {NoFiles},
          rec \in RemoteStates("DB_PATH_REMOTE_RECENT", 1, {1}) \cup {NoFiles},
          mode \in {"wal", "delete"}, writable \in BOOLEAN, sound \in BOOLEAN :
          catalog = [paths |-> [r \in RemotePaths |->
                                   IF r = "DB_PATH_REMOTE_FULL" THEN full ELSE rec],
                     journal_mode |-> mode, writable |-> writable, sound |-> sound]
    /\ base \in {None, Some(LocalDb("local", TRUE)), Some(LocalDb("local", FALSE))}
    /\ recent = None
    /\ pc = "idle"
    /\ i = 0
    /\ call = None
    /\ error = None
    /\ disk = EmptyStore
    /\ conn = EmptyStore
    /\ files = <<>>
    /\ layout = SchemaLayout
    /\ answer = None

pushed == <<disk, conn, files, layout, answer>>

\* main, step 1: ensure_local_db_or_create_empty returns
EnsureLocal ==
    /\ pc = "idle"
    /\ Len(files) < MaxRuns
    /\ LET r == ensure_local_db_or_create_empty(
                    base, catalog.paths["DB_PATH_REMOTE_FULL"], catalog)
       IN  /\ IsNone(r.error)
           /\ base' = r.local
           /\ catalog' = [catalog EXCEPT !.paths["DB_PATH_REMOTE_FULL"] = r.remote]
           /\ i' = r.opened
    /\ call' = Some([local |-> base, remote |-> catalog.paths])
    /\ pc' = "ensured"
    /\ error' = None
    /\ UNCHANGED recent
    /\ UNCHANGED pushed

\* main, step 1: ensure_local_db_or_create_empty raises and the run ends
EnsureRaises ==
    /\ pc = "idle"
    /\ Len(files) < MaxRuns
    /\ LET r == ensure_local_db_or_create_empty(
                    base, catalog.paths["DB_PATH_REMOTE_FULL"], catalog)
       IN  /\ ~IsNone(r.error)
           /\ base' = r.local
           /\ catalog' = [catalog EXCEPT !.paths["DB_PATH_REMOTE_FULL"] = r.remote]
           /\ i' = r.opened
           /\ error' = r.error
    /\ call' = Some([local |-> base, remote |-> catalog.paths])
    /\ pc' = "raised"
    /\ UNCHANGED recent
    /\ UNCHANGED pushed

\* main, step 2: the schema, the ingestion and the backfill on the
\* connection to DB_PATH_LOCAL_FULL, the checkpoint and the check
IngestLocal ==
    /\ pc = "ensured"
    /\ base' = Some(LocalDb(<<"ingested", Get(base).content>>, TRUE))
    /\ pc' = "ingested"
    /\ UNCHANGED <<catalog, recent, i, call, error>>
    /\ UNCHANGED pushed

\* main, step 3: build_recent_db(DB_PATH_LOCAL_FULL, DB_PATH_LOCAL_RECENT,
\* recent_from)
BuildLocalRecent ==
    /\ pc = "ingested"
    /\ recent' = Some(LocalDb(<<"recent", Get(base).content>>, TRUE))
    /\ pc' = "built"
    /\ UNCHANGED <<catalog, base, i, call, error>>
    /\ UNCHANGED pushed

\* main, step 4: the run ends; nothing is copied to the share
EndRun ==
    /\ pc \in {"built", "raised"}
    /\ pc' = "idle"
    /\ files' = Append(files, pc)
    /\ UNCHANGED <<catalog, base, recent, i, call, error, disk, conn, layout, answer>>

\* between two runs the temporary directory loses the local FULL database,
\* or the file is damaged
LocalLost ==
    /\ pc = "idle"
    /\ ~IsNone(base)
    /\ Get(base).ok
    /\ \E db \in {None, Some(LocalDb(Get(base).content, FALSE))} : base' = db
    /\ UNCHANGED <<catalog, recent, pc, i, call, error>>
    /\ UNCHANGED pushed

NextPush ==
    \/ EnsureLocal
    \/ EnsureRaises
    \/ IngestLocal
    \/ BuildLocalRecent
    \/ EndRun
    \/ LocalLost

SpecPush == InitPush /\ [][NextPush]_vars

\* ------------------------------------------------------------------------
\* Properties
\* ------------------------------------------------------------------------
\* the six characters after the prefix are digits YYMMDD of a calendar date
\* 2000+YY-MM-DD that lies within DATO_START..DATO_END
ValidYYMMDD(d) ==
    /\ AllDigits(d)
    /\ DateInWindow(Date(2000 + DigitsVal(SubSeq(d, 1, 2)),
                         DigitsVal(SubSeq(d, 3, 4)),
                         DigitsVal(SubSeq(d, 5, 6))))

ValidName(fn) ==
    /\ StartsWith(fn, F_PREFIX)
    /\ Len(fn) >= Len(F_PREFIX) + 6
    /\ ValidYYMMDD(SubSeq(fn, Len(F_PREFIX) + 1, Len(F_PREFIX) + 6))

Selected == {files[k] : k \in 1..Len(files)}

\* C1: get_files_to_ingest returns, in ascending order of file name, exactly
\* the files of the catalog whose name is the prefix followed by a valid
\* YYMMDD date within the window and that are absent from the ledger or have
\* a modification time different from the recorded one.
C1_SelectsExactly ==
    pc = "selected" =>
        /\ \A k \in 1..Len(files), l \in 1..Len(files) :
              k < l => StrLess(files[k], files[l])
        /\ Selected = {fn \in DOMAIN catalog :
                          ValidName(fn) /\ NewOrChanged(conn.ingested_files, catalog, fn)}

\* the last call of ingest_one_file returned, and it was for that file
Ingested(c) == ~IsNone(c) /\ ~Get(c).raised

\* the last call returned and its file was in the ledger before the call
ReIngested(c) == Ingested(c) /\ Get(c).filename \in DOMAIN Get(c).before.ingested_files

\* the rows INSERT OR REPLACE was given by the last call
CallFacts(c) == facts_of(catalog[Get(c).filename].df, Get(c).filename)

KeysOf(facts) == {Get(facts[j].key) : j \in 1..Len(facts)}

CallKeys(c) == KeysOf(CallFacts(c))

\* C2: after a batch run completed without error, another run with the
\* catalog unchanged ingests no file and leaves all four tables identical.
C2_SecondRunChangesNothing ==
    ~IsNone(base) =>
        /\ disk = Get(base).store
        /\ pc \in {"ingest", "refresh"} => files = <<>>

C2_Witness ==
    /\ ~IsNone(base)
    /\ Get(base).again
    /\ pc = "idle"
    /\ DOMAIN disk.position_change # {}
    /\ DOMAIN disk.ingested_files # {}

\* the rows of position_change that the store before held from other files
RowsOfOthers(c) ==
    {k \in DOMAIN Get(c).before.position_change :
        Get(c).before.position_change[k].source_file # Get(c).filename}

SameRow(c, k) ==
    /\ k \in DOMAIN conn.position_change
    /\ conn.position_change[k] = Get(c).before.position_change[k]

\* C3 as stated: re-ingesting a changed file F leaves every row of
\* position_change whose source_file is another file unchanged, whatever F holds.
C3_OtherFilesRowsUnchanged ==
    ReIngested(call) => \A k \in RowsOfOthers(call) : SameRow(call, k)

\* C3: re-ingesting a changed file F leaves unchanged every row of
\* position_change whose source_file is another file and whose key (isin,
\* investor_id, date_today) is not the key of a fact row of F.
C3_OtherKeysRowsUnchanged ==
    ReIngested(call) =>
        \A k \in RowsOfOthers(call) \ CallKeys(call) : SameRow(call, k)

C3_Witness ==
    /\ ReIngested(call)
    /\ CallKeys(call) # {}
    /\ RowsOfOthers(call) \ CallKeys(call) # {}
    /\ conn.position_change # Get(call).before.position_change

\* C4: after a changed file F is re-ingested, the rows of position_change with
\* source_file F are exactly the rows of the current content of F.
C4_NoStaleRows ==
    ReIngested(call) =>
        {k \in DOMAIN conn.position_change :
            conn.position_change[k].source_file = Get(call).filename}
        = CallKeys(call)

\* the cell is blank: empty or white space
BlankCell(c) == IF IsNone(c) THEN TRUE ELSE Strip(Get(c)) = ""

\* the rows of df whose key column holds id
RowsWith(df, names, id) ==
    {j \in 1..Len(df.rows) : StrCell(df, j, pick_col(df, names)) = id}

\* df has none of the columns names, or a blank cell there in every row of id
NoValueIn(df, keycol, id, names) ==
    IF IsNone(pick_col(df, names)) THEN TRUE
    ELSE \A j \in RowsWith(df, keycol, id) : BlankCell(Cell(df, j, pick_col(df, names)))

\* table[id][a] had a value before the call and has the same value after it
Kept(before, after, id, a) ==
    ~IsNone(before[id][a]) => after[id][a] = before[id][a]

\* C5: an attribute of an investor or a security that is stored non-null is
\* not changed by ingesting a file that lacks the column or has a blank cell
\* in it.
C5_MergeNeverErases ==
    Ingested(call) =>
        /\ \A id \in DOMAIN Get(call).before.investor, a \in DOMAIN InvestorCols :
              NoValueIn(catalog[Get(call).filename].df, col_investor_id, id, InvestorCols[a])
                 => Kept(Get(call).before.investor, conn.investor, id, a)
        /\ \A id \in DOMAIN Get(call).before.security, a \in DOMAIN SecurityTextCols :
              NoValueIn(catalog[Get(call).filename].df, col_isin, id, SecurityTextCols[a])
                 => Kept(Get(call).before.security, conn.security, id, a)

\* every row of facts is the row position_change holds under its key
StoredAsGiven(facts) ==
    \A j \in 1..Len(facts) :
        /\ Get(facts[j].key) \in DOMAIN conn.position_change
        /\ conn.position_change[Get(facts[j].key)] = facts[j].row

\* C6: a fact row whose key is already in position_change replaces the stored
\* row in every field, nulls included.
C6_FactRowReplaced == Ingested(call) => StoredAsGiven(CallFacts(call))

C6_Witness ==
    /\ Ingested(call)
    /\ \E k \in CallKeys(call) \cap DOMAIN Get(call).before.position_change :
          /\ ~IsNone(Get(call).before.position_change[k].price_today)
          /\ IsNone(conn.position_change[k].price_today)
          /\ Get(call).before.position_change[k].source_file # Get(call).filename

\* the text is a value: not empty and not the text nan
IsValue(s) == s \notin {"", "nan"}

\* C7: no row of position_change has a null, empty or nan isin, investor_id or
\* date_today.
C7_NoBlankKeyStored ==
    \A k \in DOMAIN disk.position_change :
        /\ IsValue(disk.position_change[k].isin)
        /\ IsValue(disk.position_change[k].investor_id)
        /\ ~IsNone(disk.position_change[k].date_today)

\* no alias of the security id, the investor id or the observation date
LacksMandatoryColumn(df) ==
    \E names \in {col_isin, col_investor_id, col_date_today} :
        \A j \in 1..Len(names) : names[j] \notin df.columns

\* C8: no cell content makes ingest_one_file raise: a file with the three
\* mandatory columns is ingested whatever its number, date, flag and rank
\* cells hold.
C8_CellNeverAborts ==
    pc = "raised" => LacksMandatoryColumn(catalog[Get(call).filename].df)

\* the next file of the batch lacks a mandatory column
NextLacksColumn ==
    /\ pc = "ingest"
    /\ i < Len(files)
    /\ LacksMandatoryColumn(catalog[files[i + 1]].df)

\* ValueError naming the file, nothing written
RaisedBeforeWrite ==
    /\ pc' = "raised"
    /\ error' = Some(<<"ValueError", files[i + 1]>>)
    /\ conn' = conn
    /\ disk' = disk

\* the connection is closed: the run is over
RunEnds == pc' = "idle" /\ conn' = disk /\ disk' = disk

\* C9: a file without an alias of the ISIN, investor id or date column makes
\* ingest_one_file raise ValueError naming the file before it writes to any
\* table, and no later file of the batch is ingested in that run.
C9_MissingColumnHalts ==
    [][/\ NextLacksColumn => (RaisedBeforeWrite \/ RunEnds)
       /\ pc = "raised" => RunEnds]_vars

C9_Witness ==
    /\ pc = "raised"
    /\ LacksMandatoryColumn(catalog[Get(call).filename].df)
    /\ i + 1 < Len(files)
    /\ conn = Get(call).before

\* the files of the batch that ingest_one_file returned for
Finished == {files[k] : k \in 1..i}

\* C10: when a run ends by an error or a kill, every file that was finished
\* before is committed and is not selected again by the next run.
C10_FinishedFilesCommitted ==
    [][(pc \in {"ingest", "raised"} /\ pc' = "idle") =>
          \A fn \in Finished :
              /\ fn \in DOMAIN disk'.ingested_files
              /\ ~NewOrChanged(disk'.ingested_files, catalog', fn)]_vars

\* the fact rows of the security of r dated the calendar day after r that
\* record a positive price
NextDayPriced(position_change, r) ==
    {q \in Rows(position_change) :
        /\ q.isin = r.isin
        /\ ~IsNone(DayOfText(q.date_today))
        /\ DayOfText(q.date_today) = DayAfter(DayOfText(r.date_today))
        /\ Positive(q.price_yesterday)}

\* the recorded price of r when positive, else the greatest positive price
\* recorded for its security on the next calendar day, else nothing
ResolvedPrice(position_change, r) ==
    IF Positive(r.price_yesterday) THEN r.price_yesterday
    ELSE MaxOrNull({Get(q.price_yesterday) : q \in NextDayPriced(position_change, r)})

\* the trade carries the resolved price rp, or is left out when there is none
Carries(t, rp) == IF IsNone(rp) THEN ~Positive(t.trade_price) ELSE t.trade_price = rp

\* C11: in every query the trade price of a fact row is its recorded
\* price_yesterday when that is positive, and otherwise the greatest positive
\* price recorded for the same security on the next calendar day.
C11_TradePriceResolved ==
    ~IsNone(answer) =>
        \A k \in DOMAIN Get(answer).trades :
            Carries(Get(answer).trades[k],
                    ResolvedPrice(disk.position_change, disk.position_change[k]))

\* the fact rows without a positive resolved price
Unresolved ==
    {k \in DOMAIN disk.position_change :
        ~Positive(ResolvedPrice(disk.position_change, disk.position_change[k]))}

Without(trs, K) == [k \in DOMAIN trs \ K |-> trs[k]]

\* the SELECT of the query of a over the trades trs
Reselect(a, trs) ==
    CASE a.query = "fetch_aggregated_by_security" ->
            eier_select(trs, priced_trades(trs), disk.security)
      [] a.query = "fetch_buy_sell_by_investor" ->
            aksje_select(trs, priced_trades(trs))
      [] a.query = "fetch_top_by_security" ->
            top_select(trs, priced_trades(trs), disk.security)
      [] a.query = "compute_best_investors" ->
            best_agg(trs, priced_trades(trs), security_last_price_map(disk.security),
                     a.min_trades)

\* C12: a fact row without a positive resolved trade price adds nothing to any
\* count, quantity or amount of a query: the query returns what it returns
\* with those rows taken out of its trades.
C12_UnresolvedRowsAddNothing ==
    ~IsNone(answer) =>
        Get(answer).rows = Reselect(Get(answer), Without(Get(answer).trades, Unresolved))

C12_Witness ==
    /\ ~IsNone(answer)
    /\ DOMAIN Get(answer).trades \cap Unresolved # {}
    /\ DOMAIN Get(answer).trades \ Unresolved # {}
    /\ DOMAIN Get(answer).rows # {}

\* the SQL form and the pandas form keep the same rows at the same price
SameResolution(sql, pandas) ==
    /\ Positive(sql) = (pandas > 0)
    /\ Positive(sql) => Get(sql) = pandas

\* C13: for every fact row the SQL form COALESCE(NULLIF(price, 0), next_day)
\* > 0 and the pandas form of beste_investorer give the same trade price and
\* the same decision to keep or drop the row.
C13_SameResolutionEverywhere ==
    \A k \in DOMAIN disk.position_change :
        SameResolution(sql_trade_price(disk.position_change, disk.position_change[k]),
                       pandas_trade_price(disk.position_change, disk.position_change[k]))

\* the effective price of a fact row: price_today when positive, else
\* price_yesterday when positive, else 0
Effective(r) ==
    IF Positive(r.price_today) THEN Get(r.price_today)
    ELSE IF Positive(r.price_yesterday) THEN Get(r.price_yesterday)
    ELSE 0

\* the fact rows of security s with a positive effective price
PricedRowsOf(s) == {r \in Rows(disk.position_change) : r.isin = s /\ Effective(r) > 0}

\* those of rows that no other of rows is dated after
Latest(rows) ==
    {r \in rows :
        \A q \in rows : ~DateLess(Get(DayOfText(r.date_today)), Get(DayOfText(q.date_today)))}

\* the fact rows of s dated after every row of s with a positive effective price
LaterUnpriced(s) ==
    {r \in Rows(disk.position_change) :
        /\ r.isin = s
        /\ \A q \in PricedRowsOf(s) :
              DateLess(Get(DayOfText(q.date_today)), Get(DayOfText(r.date_today)))}

\* C14: after the backfill every security with a fact row of positive
\* effective price has as last_price the greatest effective price of its
\* latest date_today with such a price; later dates without a price are ignored.
C14_LastPriceOfLatestPricedDate ==
    pc = "refreshed" =>
        \A s \in DOMAIN disk.security :
            PricedRowsOf(s) # {} =>
                disk.security[s].last_price
                    = Some(MaxOf({Effective(r) : r \in Latest(PricedRowsOf(s))}))

C14_Witness ==
    /\ pc = "refreshed"
    /\ PricedRowsOf("NO1") # {}
    /\ LaterUnpriced("NO1") # {}
    /\ \E r \in PricedRowsOf("NO1") : Positive(r.price_today) /\ Positive(r.price_yesterday)
    /\ disk.security["NO1"].last_price # Some(7700)

\* C15: when a batch run has ended with its backfill, a security without any
\* fact row of positive price_today or price_yesterday has last_price null.
C15_NoPriceNoLastPrice ==
    (pc = "idle" /\ ~IsNone(base)) =>
        \A s \in DOMAIN disk.security :
            PricedRowsOf(s) = {} => IsNone(disk.security[s].last_price)

\* net is buys minus sells, both reported positive
NetOfBuysAndSells(row) ==
    /\ row.netto_belop = row.kjop_belop - row.salg_belop
    /\ row.kjop_belop >= 0
    /\ row.salg_belop >= 0

\* C20: in handler_aksje and handler_best_viktige a sale at a positive trade
\* price counts negative in the net amount and positive in the sell amount, so
\* netto_belop = kjop_belop - salg_belop in every group.
C20_NetIsBuysMinusSells ==
    (~IsNone(answer)
        /\ Get(answer).query \in {"fetch_buy_sell_by_investor", "fetch_top_by_security"}) =>
            \A g \in DOMAIN Get(answer).rows : NetOfBuysAndSells(Get(answer).rows[g])

C20_Witness ==
    /\ ~IsNone(answer)
    /\ Get(answer).query = "fetch_top_by_security"
    /\ \E g \in DOMAIN Get(answer).rows :
          /\ Get(answer).rows[g].kjop_belop > 0
          /\ Get(answer).rows[g].salg_belop > 0
          /\ Get(answer).rows[g].brutto_belop
                = Get(answer).rows[g].kjop_belop + Get(answer).rows[g].salg_belop


\* the store before the first setup
Earlier == Get(base)

\* every row the store had before the setup is there with the values it had,
\* and no other row is
RowsKept ==
    \A t \in Tables :
        /\ DOMAIN disk[t] = DOMAIN Earlier.tables[t]
        /\ \A k \in DOMAIN Earlier.tables[t] :
              \A c \in DOMAIN Earlier.tables[t][k] :
                  /\ c \in DOMAIN disk[t][k]
                  /\ disk[t][k][c] = Earlier.tables[t][k][c]

\* C19: schema setup is idempotent and additive: after the schema script and
\* the two column helpers have run (once or more often) over a store with or
\* without the columns last_price and price_today, every row the store had
\* is unchanged, all four tables and both columns exist, and a second
\* setup leaves the store exactly as the first one left it.
C19_SetupAddsAndRepeats ==
    pc = "set up" =>
        /\ RowsKept
        /\ DOMAIN layout = Tables
        /\ "last_price" \in Columns(layout.security)
        /\ "price_today" \in Columns(layout.position_change)
        /\ \A t \in DOMAIN Earlier.layout :
              SubSeq(layout[t], 1, Len(Earlier.layout[t])) = Earlier.layout[t]
        /\ i > 1 => Database(layout, disk) = Get(call)

\* a second setup has finished on a store that had a security row without
\* last_price and a fact row without price_today, and lacked a table
C19_Witness ==
    /\ pc = "set up"
    /\ i = 2
    /\ "investor" \notin DOMAIN Earlier.layout
    /\ Earlier.tables.security # <<>>
    /\ Earlier.tables.position_change # <<>>
    /\ "last_price" \notin Columns(Earlier.layout.security)
    /\ "price_today" \notin Columns(Earlier.layout.position_change)
    /\ IsNone(disk.security["NO1"].last_price)


\* build_recent_db has returned: the RECENT store is complete
Built == pc = "built" \/ (pc = "idle" /\ i > 0)

\* the tables of the RECENT store
Snapshot == Get(recent).tables

\* the keys of the fact rows of the FULL store on or after the cutoff date
\* (ISO dates order as their texts do)
FromCutoff ==
    {k \in DOMAIN disk.position_change :
        ~StrLess(Get(disk.position_change[k].date_today), Get(call).date_from)}

\* C16: the store build_recent_db produces holds every investor row and
\* every security row of the source store (last_price aside, which the
\* build derives again) and exactly the fact rows of the source whose
\* date_today is on or after the cutoff date, each as the source has it.
C16_SnapshotRowsOfWindow ==
    Built =>
        /\ Snapshot.investor = disk.investor
        /\ DOMAIN Snapshot.security = DOMAIN disk.security
        /\ \A s \in DOMAIN disk.security :
              \A c \in DOMAIN disk.security[s] \ {"last_price"} :
                  Snapshot.security[s][c] = disk.security[s][c]
        /\ DOMAIN Snapshot.position_change = FromCutoff
        /\ \A k \in FromCutoff : Snapshot.position_change[k] = disk.position_change[k]

\* C17: in the store build_recent_db produces the last_price of every
\* security is what the backfill gives over the fact rows of that store
\* alone: null for a security with no positive price inside the window,
\* whatever last_price the source store holds for it.
C17_LastPriceOfWindowOnly ==
    Built =>
        \A s \in DOMAIN Snapshot.security :
            Snapshot.security[s].last_price =
                (IF s \in DOMAIN last_prices(Snapshot.position_change)
                 THEN Some(last_prices(Snapshot.position_change)[s])
                 ELSE None)

\* C18: when build_recent_db has failed, the RECENT store that was at the
\* output path before the build is still there, as it was.
C18_FailedBuildKeepsOldStore ==
    (pc = "failed" /\ ~IsNone(Get(call).before)) => recent = Get(call).before


\* C21: normalize_date gives every cell that encodes a calendar day
\* (YYYYMMDD, YYMMDD of 2000+YY, the day number counted from 1899-12-30,
\* YYYY-MM-DD) the ISO date of that day, the same for all of them, and gives
\* null for a blank cell, nan, and a cell that names no day.
C21_EncodingsOfOneDayAgree ==
    ~IsNone(answer) =>
        Get(answer).date =
            (IF IsNone(call) THEN None
             ELSE Some(TwoDigits(Get(call)[1] \div 100) \o TwoDigits(Get(call)[1] % 100)
                       \o "-" \o TwoDigits(Get(call)[2]) \o "-" \o TwoDigits(Get(call)[3])))

\* the day number 45306 has been normalized to 2024-01-15
C21_Witness ==
    /\ call = Some(<<2024, 1, 15>>)
    /\ ~IsNone(answer)
    /\ Get(answer).value = Some("45306")
    /\ Get(answer).date = Some("2024-01-15")


\* C22: when ensure_local_db has returned without error, copied or not, the
\* files at the local path (main file, -wal, -shm) are those of the remote
\* database it was called for, whatever the local path held before.
C22_LocalIsTheRemoteAsked ==
    pc = "staged" => base = catalog[Get(call).remote_db_path]


\* C23: when a store has been staged, the pages of the copy are those of
\* one committed state of the source, whatever the writer did during the
\* copy.
C23_CopyIsOneCommittedState ==
    pc = "copied" => \E v \in 1..i : pages_read(base) = <<v, v>>


\* the files of the committed ledger that are in CATALOG as they were ingested
CommittedFiles ==
    {fn \in DOMAIN disk.ingested_files \cap DOMAIN catalog :
        disk.ingested_files[fn].mtime = catalog[fn].mtime}

\* the keys of the fact rows a file gives: of every row with a date
FactKeysOf(df) ==
    LET c_isin == pick_col(df, col_isin)
        c_inv == pick_col(df, col_investor_id)
        c_date == pick_col(df, col_date_today)
    IN  UNION {LET d == DateCell(df, j, c_date)
               IN  IF IsNone(d) THEN {}
                   ELSE {<<StrCell(df, j, c_isin), StrCell(df, j, c_inv),
                           Get(d)>>} :
               j \in 1..Len(df.rows)}

\* the keys of the dimension rows a file gives in the column col: of every
\* row whose cell is not blank
DimensionKeysOf(df, col) ==
    LET c == pick_col(df, col)
    IN  {s \in {StrCell(df, j, c) : j \in 1..Len(df.rows)} :
            ~IsNone(replace_nan_empty(s))}

\* the committed tables hold a row for every key the file gives
DataCommitted(df) ==
    /\ FactKeysOf(df) \subseteq DOMAIN disk.position_change
    /\ DimensionKeysOf(df, col_investor_id) \subseteq DOMAIN disk.investor
    /\ DimensionKeysOf(df, col_isin) \subseteq DOMAIN disk.security

\* C24: in every committed state of the store, also the one a crash or an
\* exception leaves, a file is in the ledger ingested_files only if the
\* investor, security and position_change rows of that file are committed
\* too.
C24_LedgerOnlyWithData ==
    \A fn \in CommittedFiles : DataCommitted(catalog[fn].df)

\* an exception is in flight with uncommitted work, and the committed store
\* holds a ledger entry with its fact rows
C24_Witness ==
    /\ pc = "raised"
    /\ conn # disk
    /\ \E fn \in CommittedFiles : FactKeysOf(catalog[fn].df) # {}


\* the join of the query that gave the answer: over the fact rows of its
\* CTE trades
JoinOfAnswer == left_join_prices(disk.position_change, DOMAIN Get(answer).trades)

\* C25: the next-day price relation has at most one row per (security,
\* date), and the join of a query holds every fact row matching its filter
\* exactly once, with the price the query used for it.
C25_NoFanOut ==
    /\ \A p, q \in prices(disk.position_change) :
          (p.isin = q.isin /\ p.d = q.d) => p = q
    /\ ~IsNone(answer) =>
          /\ \A k \in DOMAIN Get(answer).trades :
                Cardinality({j \in JoinOfAnswer : j.pc = k}) = 1
          /\ \A j \in JoinOfAnswer :
                Get(answer).trades[j.pc].trade_price
                    = IF Get(answer).query = "compute_best_investors"
                      THEN Some(pick_trade_price(
                                fillna0(disk.position_change[j.pc].price_yesterday),
                                fillna0(joined_price_nextday(j))))
                      ELSE joined_trade_price(disk.position_change, j)

\* a query answered over a fact row without a price of its own, while two
\* investors hold priced rows of its security on the following day
C25_Witness ==
    /\ ~IsNone(answer)
    /\ \E k \in DOMAIN Get(answer).trades :
          /\ IsNone(NullIf(disk.position_change[k].price_yesterday, 0))
          /\ Cardinality({r.investor_id : r \in
                 {q \in Priced(disk.position_change) :
                     /\ q.isin = disk.position_change[k].isin
                     /\ sql_date(q.date_today)
                          = sql_date_plus_1_day(disk.position_change[k].date_today)}})
                 > 1


\* the named columns of position_change, the key columns aside
FactColumns ==
    {"date_yesterday", "holding_today", "holding_yesterday", "price_today",
     "price_yesterday", "change_qty", "abs_change_qty", "change_percent",
     "flag_new_source", "flag_exit_source", "rank", "source_file"}

\* C26: every fact row of the store build_recent_db produces equals the
\* row of the source store with the same key in every named column, in
\* either layout of the source's position_change table (price_today from
\* CREATE TABLE, or added by ALTER TABLE ADD COLUMN).
C26_SnapshotColumnsOfSource ==
    Built =>
        \A k \in DOMAIN Snapshot.position_change \cap DOMAIN disk.position_change :
            /\ Snapshot.position_change[k].price_today
                   = disk.position_change[k].price_today
            /\ Snapshot.position_change[k].price_yesterday
                   = disk.position_change[k].price_yesterday
            /\ Snapshot.position_change[k].change_qty
                   = disk.position_change[k].change_qty
            /\ \A c \in FactColumns :
                   Snapshot.position_change[k][c] = disk.position_change[k][c]


\* the ingested files of CATALOG that give a fact row with the key k
HoldersOf(k) == {fn \in CommittedFiles : k \in FactKeysOf(catalog[fn].df)}

\* the date embedded in the name of fn is not before that of any file of S
LatestOf(fn, S) ==
    \A other \in S :
        ~StrLess(Get(Iso(parse_file_date_from_name(fn))),
                 Get(Iso(parse_file_date_from_name(other))))

\* C27: after any sequence of batch runs, once every file of CATALOG is
\* ingested as it stands, the stored row of a key that several files give
\* is the one of the file with the latest date in its name.
C27_LatestFileSupersedes ==
    (pc = "idle" /\ CommittedFiles = DOMAIN catalog) =>
        \A k \in DOMAIN disk.position_change :
            Cardinality(HoldersOf(k)) > 1 =>
                /\ disk.position_change[k].source_file \in HoldersOf(k)
                /\ LatestOf(disk.position_change[k].source_file, HoldersOf(k))


\* the frame of the file of the last ingest_one_file call
IngestedFrame == catalog[Get(call).filename].df

\* the first row of the frame rows whose key is k
FirstOccurrence(rows, k) ==
    rows[CHOOSE j \in 1..Len(rows) :
            /\ rows[j].key = Some(k)
            /\ \A h \in 1..(j - 1) : rows[h].key # Some(k)]

\* the keys of the rows of a frame, the rows without a key aside
KeysIn(rows) == {Get(rows[j].key) : j \in {h \in 1..Len(rows) : ~IsNone(rows[h].key)}}

\* the stored row has the values of row wherever row has one
HasValuesOf(stored, row) == \A a \in DOMAIN row : ~IsNone(row[a]) => stored[a] = row[a]

\* C28: after ingest_one_file has returned for a file, every key of the file
\* has one stored fact row, that of its first row in file order with the
\* key; the stored investor and security rows likewise carry the values of
\* the first row of the file with their investor_id and isin.
C28_FirstOccurrenceStored ==
    (pc = "ingest" /\ ~IsNone(call)) =>
        /\ DOMAIN conn.position_change = KeysIn(facts_frame(IngestedFrame, FileA))
        /\ \A k \in KeysIn(facts_frame(IngestedFrame, FileA)) :
              conn.position_change[k]
                  = FirstOccurrence(facts_frame(IngestedFrame, FileA), k).row
        /\ DOMAIN conn.investor = KeysIn(inv_frame(IngestedFrame))
        /\ \A v \in KeysIn(inv_frame(IngestedFrame)) :
              HasValuesOf(conn.investor[v],
                          FirstOccurrence(inv_frame(IngestedFrame), v).row)
        /\ DOMAIN conn.security = KeysIn(sec_frame(IngestedFrame))
        /\ \A s \in KeysIn(sec_frame(IngestedFrame)) :
              HasValuesOf(conn.security[s],
                          FirstOccurrence(sec_frame(IngestedFrame), s).row)

\* ingest_one_file has returned for a file whose first two rows have one
\* fact key and differ in their values
C28_Witness ==
    /\ pc = "ingest"
    /\ ~IsNone(call)
    /\ LET rows == facts_frame(IngestedFrame, FileA)
       IN  /\ ~IsNone(rows[1].key)
           /\ rows[1].key = rows[2].key
           /\ rows[1].row # rows[2].row
           /\ IngestedFrame.rows[1]["Fornavn"] # IngestedFrame.rows[2]["Fornavn"]


\* C30: after ingest_one_file calls that returned, every fact row of the
\* store has its isin among the security rows and its investor_id among
\* the investor rows.
C30_FactsReferToDimensions ==
    (~IsNone(call) /\ ~Get(call).raised) =>
        \A k \in DOMAIN conn.position_change :
            /\ conn.position_change[k].isin \in DOMAIN conn.security
            /\ conn.position_change[k].investor_id \in DOMAIN conn.investor


\* C29: during a build run the files of remote FULL and remote RECENT stay
\* as the run found them; the run opens remote FULL at most once, and only
\* when the local FULL database was missing or failed its integrity check;
\* a local FULL database that passed is the one the run works on.
C29_NoPush ==
    (pc # "idle" /\ ~IsNone(call)) =>
        /\ catalog.paths = Get(call).remote
        /\ i <= 1
        /\ i = 1 => ~integrity_ok(Get(call).local)
        /\ (integrity_ok(Get(call).local) /\ pc = "ensured")
               => base = Get(call).local

====
